---- MODULE Spec2Model ----
(***************************************************************************)
(* Property-listing scraper: one scheduled run after another of main()     *)
(* (src/src/index.ts) against the seen-state store (src/src/store.ts),     *)
(* the fetch layer (src/src/scraper.ts) and the Telegram notifier          *)
(* (notifier.ts, src/unnamed/part_005).                                   *)
(***************************************************************************)
EXTENDS Integers, Sequences, FiniteSets, TLC

(***************************************************************************)
(* Bounds of the model.                                                    *)
(***************************************************************************)
\* Number of scheduled invocations of main() in one behaviour.
MaxRuns == 2
\* Number of failures that set in (store call, transport send, browser step,
\* process kill) in one behaviour.
MaxFaults == 1

(***************************************************************************)
(* Program constants.                                                      *)
(***************************************************************************)
\* notifier.ts: if (listings.length >= 5)
SummaryThreshold == 5
\* notifier.ts: await delay(500)
PacingDelay == 500
\* scraper.ts: const RETRY_DELAY = 10_000
RETRY_DELAY == 10000
\* scraper.ts: for (let attempt = 1; attempt <= 2; attempt++)
MaxAttempts == 2
\* store.ts: the two keys
REDIS_KEY == "njuskalo:seen_ids"
FINGERPRINT_KEY == "seen:fingerprints"

(***************************************************************************)
(* Text.  A string is a sequence of one-character strings, so that the     *)
(* normalisation of getFingerprint is computed, not assumed.               *)
(***************************************************************************)
Whitespace == {" ", "\t"}

\* String.prototype.toLowerCase on one character of the alphabet in use.
ToLowerChar(c) ==
    CASE c = "A" -> "a"
      [] c = "B" -> "b"
      [] c = "C" -> "c"
      [] c = "D" -> "d"
      [] OTHER -> c

ToLowerCase(s) == [i \in 1..Len(s) |-> ToLowerChar(s[i])]

\* s.replace(/\s+/g, " "): every maximal run of whitespace becomes one space.
RECURSIVE CollapseWhitespace(_)
CollapseWhitespace(s) ==
    IF s = <<>> THEN <<>>
    ELSE IF Head(s) \in Whitespace
         THEN IF Len(s) > 1 /\ s[2] \in Whitespace
              THEN CollapseWhitespace(Tail(s))
              ELSE <<" ">> \o CollapseWhitespace(Tail(s))
         ELSE <<Head(s)>> \o CollapseWhitespace(Tail(s))

\* s.replace(/\s+/g, ""): all whitespace removed.
RemoveWhitespace(s) == SelectSeq(s, LAMBDA c : c \notin Whitespace)

RECURSIVE TrimStart(_)
TrimStart(s) ==
    IF s # <<>> /\ Head(s) \in Whitespace THEN TrimStart(Tail(s)) ELSE s

RECURSIVE TrimEnd(_)
TrimEnd(s) ==
    IF s # <<>> /\ s[Len(s)] \in Whitespace
    THEN TrimEnd(SubSeq(s, 1, Len(s) - 1))
    ELSE s

\* String.prototype.trim
Trim(s) == TrimEnd(TrimStart(s))

\* index.ts getFingerprint: `${title}|${price}`
getFingerprint(listing) ==
    LET title == Trim(CollapseWhitespace(ToLowerCase(listing.title)))
        price == Trim(RemoveWhitespace(listing.price))
    IN  title \o <<"|">> \o price

(***************************************************************************)
(* Listings and the pages the source adapters can return.                  *)
(***************************************************************************)
Listing(i, t, p) == [id |-> i, title |-> t, price |-> p]

L1001 == Listing("1001", <<"a">>, <<"1">>)
L1002 == Listing("1002", <<"b", " ", "c">>, <<"2">>)
\* same content as 1002 up to letter case and whitespace, under a new id
L9999 == Listing("9999", <<"B", " ", "\t", "C", " ">>, <<"2", " ">>)
L2001 == Listing("2001", <<"c">>, <<"1">>)
\* id 2001 as a second search page shows it: the content of 1001
L2001b == Listing("2001", <<"A">>, <<" ", "1">>)
\* 3001 and 3002 share their content
L3001 == Listing("3001", <<"d">>, <<"3">>)
L3002 == Listing("3002", <<"D">>, <<"3">>)
L3003 == Listing("3003", <<"d", "d">>, <<"3">>)
L3004 == Listing("3004", <<"d", " ", "d">>, <<"3">>)
L3005 == Listing("3005", <<"d">>, <<"3", "3">>)

PageEmpty == <<>>
PageA == <<L1001, L1002>>
PageB == <<L1001, L9999, L2001>>
PageBig == <<L1001, L9999, L2001, L3001, L3002, L3003, L3004, L3005>>
PageC == <<L2001b, L1002>>

\* store.ts 10: 30 * 24 * 60 * 60, thirty days in seconds.
TTL_SECONDS == 2592000

\* What the TTL command answers for a key that does not exist, and for a
\* key that has no expiry.
NoKey == -2
NoExpiry == -1

(***************************************************************************)
(* Configuration: process.env.  The value of a variable is a sequence of   *)
(* tokens (an address, a blank, the separator); <<>> stands for a variable *)
(* that is unset or empty, which JavaScript treats alike (both falsy).     *)
(***************************************************************************)
\* index.ts 18-23
REQUIRED_ENV_VARS ==
    {"UPSTASH_REDIS_REST_URL", "UPSTASH_REDIS_REST_TOKEN",
     "TELEGRAM_BOT_TOKEN", "TELEGRAM_CHAT_ID"}

\* index.ts 32 and 42-58: the variables that carry addresses, in the order
\* collectUrls reads them.
URL_ENV_VARS == <<"NJUSKALO_URLS", "INDEX_HR_URLS", "OGLASNIK_HR_URLS">>

Separator == "|||"

\* String.prototype.split("|||"): the segments between separators.
RECURSIVE Split(_)
Split(v) ==
    IF \A i \in 1..Len(v) : v[i] # Separator THEN <<v>>
    ELSE LET k == CHOOSE i \in 1..Len(v) :
                      v[i] = Separator /\ \A j \in 1..(i - 1) : v[j] # Separator
         IN  <<SubSeq(v, 1, k - 1)>> \o Split(SubSeq(v, k + 1, Len(v)))

\* .split("|||").map((u) => u.trim()).filter(Boolean): the addresses of one
\* variable (an address is one token).
UrlsOf(v) ==
    LET trimmed == [i \in 1..Len(Split(v)) |-> Trim(Split(v)[i])]
        kept == SelectSeq(trimmed, LAMBDA u : u # <<>>)
    IN  [i \in 1..Len(kept) |-> kept[i][1]]

\* index.ts 39-61: the addresses of the variables that are set, in order.
CollectUrls(e) ==
    LET F[i \in 0..Len(URL_ENV_VARS)] ==
            IF i = 0 THEN <<>>
            ELSE IF e[URL_ENV_VARS[i]] # <<>>
                 THEN F[i - 1] \o UrlsOf(e[URL_ENV_VARS[i]])
                 ELSE F[i - 1]
    IN  F[Len(URL_ENV_VARS)]

\* index.ts 26-29: the required variables that are missing.
MissingEnv(e) == {k \in REQUIRED_ENV_VARS : e[k] = <<>>}

\* index.ts 25-37: validateEnv() returns (TRUE) or throws (FALSE).
ValidEnv(e) ==
    /\ MissingEnv(e) = {}
    /\ \E i \in 1..Len(URL_ENV_VARS) : e[URL_ENV_VARS[i]] # <<>>

\* Configurations: complete; the bot token missing; no address variable
\* set; an address variable set to blanks and separators only.
EnvGood ==
    [k \in REQUIRED_ENV_VARS \cup {URL_ENV_VARS[i] : i \in 1..Len(URL_ENV_VARS)} |->
        CASE k = "NJUSKALO_URLS" -> <<" ", "u1", "|||">>
          [] k = "INDEX_HR_URLS" -> <<"u2">>
          [] k = "OGLASNIK_HR_URLS" -> <<>>
          [] OTHER -> <<"secret">>]
EnvNoToken == [EnvGood EXCEPT !["TELEGRAM_BOT_TOKEN"] = <<>>]
EnvNoUrls ==
    [EnvGood EXCEPT !["NJUSKALO_URLS"] = <<>>, !["INDEX_HR_URLS"] = <<>>]
EnvBlankUrls ==
    [EnvNoUrls EXCEPT !["NJUSKALO_URLS"] = <<" ", "|||", " ">>]
Envs == {EnvGood, EnvNoToken, EnvNoUrls, EnvBlankUrls}

\* What a rendered search page can hold when the adapter extracts it.
PagesOf(url) ==
    IF url = "u1" THEN {PageEmpty, PageA, PageB, PageBig}
    ELSE {PageEmpty, PageC}

AllListings ==
    {L1001, L1002, L9999, L2001, L2001b, L3001, L3002, L3003, L3004, L3005}
Ids == {l.id : l \in AllListings}
Fingerprints == {getFingerprint(l) : l \in AllListings}

(***************************************************************************)
(* Sequence helpers.                                                       *)
(***************************************************************************)
Range(s) == {s[i] : i \in 1..Len(s)}

\* Array.prototype.map((l) => l.id)
IdsOf(listings) == [i \in 1..Len(listings) |-> listings[i].id]

\* Array.prototype.map(getFingerprint)
FingerprintsOf(listings) ==
    [i \in 1..Len(listings) |-> getFingerprint(listings[i])]

(***************************************************************************)
(* State.                                                                  *)
(***************************************************************************)
VARIABLES
    redis,            \* the store: key -> set of members (store.ts `redis`)
    pc,               \* where the current run of main() stands
    runNo,            \* invocations of main() so far
    faults,           \* failures injected so far
    urlIdx,           \* index.ts main: position of `for (const url of urls)`
    attempt,          \* scraper.ts scrapeListings: `attempt`
    browser,          \* browser sessions launched and not closed
    lastError,        \* scraper.ts scrapeListings: `lastError`
    scrapeLog,        \* browser calls of the scrapeListings call in progress
    outcome,          \* how the try block of the current attempt ended
    listings,         \* scraper.ts scrapeListings: `listings` being returned
    allListingsMap,   \* index.ts main: `allListingsMap`, in insertion order
    isFirstRun,       \* index.ts main: `isFirstRun`
    seenIds,          \* index.ts main: `seenIds`
    seenFps,          \* index.ts main: `seenFps`
    newByIdListings,  \* index.ts main: `newByIdListings`
    genuinelyNew,     \* index.ts main: `genuinelyNew`
    reposts,          \* index.ts main: `reposts`
    arg,              \* store.ts addSeenIds/addSeenFingerprints: the argument
    ret,              \* where the store function in progress returns to
    next,             \* notifier.ts notifyNewListings: position of the for loop
    err,              \* the error main() rejected with
    exitCode,         \* process exit code (-1: none set by the program)
    log,              \* external calls of the current run, in order
    sendCount,        \* history: per-listing send attempts per id, all runs
    delivered,        \* history: per-listing messages delivered per id, all runs
    everNew,          \* history: ids some run classified genuinely new
    dispatched,       \* history: id -> the run whose dispatch covered it (0: none)
    crashes,          \* history: the runs that were killed during dispatch
    results,          \* history: what scrapeListings returned, url by url
    redisAtStart,     \* history: the store as the current run found it
    env,              \* process.env: variable -> value (tokens)
    expiry,           \* the store: key -> seconds to live (TTL command)
    prev,             \* history: how the previous run of main() ended
    other,            \* a second invocation of main(), while it is not running
    input,            \* the arguments a function on its own is called with
    output            \* what it returned

scrapeVars == <<attempt, browser, lastError, scrapeLog, outcome, listings>>
fetchVars == <<urlIdx, scrapeVars, allListingsMap>>
cmpVars ==
    <<isFirstRun, seenIds, seenFps, newByIdListings, genuinelyNew, reposts>>
callVars == <<arg, ret>>
runVars == <<fetchVars, cmpVars, callVars, next, err>>
sendVars == <<sendCount, delivered, everNew, dispatched, crashes>>
obsVars == <<results, redisAtStart>>
histVars == <<sendVars, obsVars>>
schedVars == <<runNo, env, prev, other, input, output>>
vars ==
    <<redis, expiry, pc, schedVars, faults, runVars, exitCode, log, histVars>>

\* index.ts 39-61: collectUrls(), reading process.env.
collectUrls == CollectUrls(env)

\* One external call in the log.
Ev(op, a, id, ok, n) == [op |-> op, arg |-> a, id |-> id, ok |-> ok, n |-> n]

Terminal == {"idle", "done", "failed", "crashed"}

\* The store as a first run over the batch leaves it (index.ts 97-101).
StoreAfterFirstRun(batch) ==
    [k \in {REDIS_KEY, FINGERPRINT_KEY} |->
        IF k = REDIS_KEY THEN Range(IdsOf(batch))
        ELSE Range(FingerprintsOf(batch))]

LogIdx == 1..Len(log)

\* The run has read both sets and classified its batch (non-first path).
Classified ==
    \E i \in LogIdx : log[i] = Ev("smembers", FINGERPRINT_KEY, "", TRUE, 0)

\* How the run that just ended looks to the run that follows it: where it
\* ended, its batch if it completed or classified it, and what the
\* classification read and produced.
Ended(at) ==
    [pc |-> at,
     batch |-> IF at = "done" \/ Classified THEN allListingsMap ELSE <<>>,
     classified |-> Classified,
     seenIds |-> seenIds,
     seenFps |-> seenFps,
     genuinelyNew |-> genuinelyNew,
     reposts |-> reposts,
     store |-> redis,
     ttl |-> expiry]

\* The state of one invocation of main(): its position, its locals, its
\* exit code and its external calls.
ThisRun ==
    [pc |-> pc, runNo |-> runNo, urlIdx |-> urlIdx, attempt |-> attempt,
     browser |-> browser, lastError |-> lastError, scrapeLog |-> scrapeLog,
     outcome |-> outcome, listings |-> listings,
     allListingsMap |-> allListingsMap, isFirstRun |-> isFirstRun,
     seenIds |-> seenIds, seenFps |-> seenFps,
     newByIdListings |-> newByIdListings, genuinelyNew |-> genuinelyNew,
     reposts |-> reposts, arg |-> arg, ret |-> ret, next |-> next,
     err |-> err, exitCode |-> exitCode, log |-> log, results |-> results,
     redisAtStart |-> redisAtStart]

\* The store the deployment starts from: never written (the empty batch),
\* or seeded by a first run that has taken place.  No invocation of main()
\* has started.
InitMain ==
    /\ redis \in {StoreAfterFirstRun(<<>>), StoreAfterFirstRun(PageA)}
    /\ expiry = [k \in {REDIS_KEY, FINGERPRINT_KEY} |->
                    IF redis[k] = {} THEN NoKey ELSE TTL_SECONDS]
    /\ env \in Envs
    /\ pc = "idle"
    /\ runNo = 0
    /\ faults = 0
    /\ urlIdx = 0
    /\ attempt = 0
    /\ browser = 0
    /\ lastError = "none"
    /\ scrapeLog = <<>>
    /\ outcome = "none"
    /\ listings = <<>>
    /\ allListingsMap = <<>>
    /\ isFirstRun = FALSE
    /\ seenIds = {}
    /\ seenFps = {}
    /\ newByIdListings = <<>>
    /\ genuinelyNew = <<>>
    /\ reposts = <<>>
    /\ arg = <<>>
    /\ ret = "none"
    /\ next = 0
    /\ err = "none"
    /\ exitCode = -1
    /\ log = <<>>
    /\ sendCount = [i \in Ids |-> 0]
    /\ delivered = [i \in Ids |-> 0]
    /\ everNew = {}
    /\ dispatched = [i \in Ids |-> 0]
    /\ crashes = {}
    /\ results = <<>>
    /\ redisAtStart = redis
    /\ prev = Ended("idle")
    /\ other = [ThisRun EXCEPT !.runNo = 1]

\* No function is called on its own.
Init ==
    /\ InitMain
    /\ input = <<>>
    /\ output = <<>>

\* A failure sets in (a site or a service goes down, the process is
\* killed): at most MaxFaults times in a behaviour.
Fault == faults < MaxFaults /\ faults' = faults + 1

\* A failure that has set in is still there for the call that follows it.
Persists == faults' = faults

\* main() rejects with e: control passes to main().catch (index.ts 161).
Throw(e) == pc' = "catch" /\ err' = e

(***************************************************************************)
(* The scheduler starts main().  Runs do not overlap.                      *)
(***************************************************************************)
Begin(store, ttl, before) ==
    /\ pc \in Terminal
    /\ runNo < MaxRuns
    /\ runNo' = runNo + 1
    /\ prev' = before
    /\ redis' = store
    /\ expiry' = ttl
    /\ pc' = "validateEnv"
    /\ urlIdx' = 0
    /\ attempt' = 1
    /\ browser' = 0
    /\ lastError' = "none"
    /\ scrapeLog' = <<>>
    /\ outcome' = "none"
    /\ listings' = <<>>
    /\ allListingsMap' = <<>>
    /\ isFirstRun' = FALSE
    /\ seenIds' = {}
    /\ seenFps' = {}
    /\ newByIdListings' = <<>>
    /\ genuinelyNew' = <<>>
    /\ reposts' = <<>>
    /\ arg' = <<>>
    /\ ret' = "none"
    /\ next' = 0
    /\ err' = "none"
    /\ exitCode' = -1
    /\ log' = <<>>
    /\ results' = <<>>
    /\ redisAtStart' = store
    /\ UNCHANGED <<env, other, input, output, faults, sendVars>>

\* The next invocation, the store as the last one left it.
StartRun == Begin(redis, expiry, prev)

\* The next invocation follows at once, and how the last one ended is
\* recorded.
StartNext == Begin(redis, expiry, Ended(pc))

\* The time between two invocations: shorter than TTL_SECONDS.
RunInterval == 2 * (TTL_SECONDS \div 3)

\* The store after d seconds: a key whose time to live is used up is gone,
\* the others have that much less to live.
Lapsed(k, d) == expiry[k] >= 0 /\ expiry[k] <= d
StoreAfter(d) ==
    [k \in DOMAIN redis |-> IF Lapsed(k, d) THEN {} ELSE redis[k]]
ExpiryAfter(d) ==
    [k \in DOMAIN expiry |->
        IF Lapsed(k, d) THEN NoKey
        ELSE IF expiry[k] >= 0 THEN expiry[k] - d ELSE expiry[k]]

\* The next invocation follows RunInterval seconds after the last one.
StartRunLater ==
    Begin(StoreAfter(RunInterval), ExpiryAfter(RunInterval), Ended(pc))

(***************************************************************************)
(* index.ts 67-69: validateEnv(), collectUrls().                           *)
(***************************************************************************)
\* index.ts 75 and 88: the for loop over no address does nothing and the
\* empty aggregate goes to the zero-listings check.
AfterValidate(urls) == IF urls = <<>> THEN "notifyZeroListings" ELSE "launch"

\* validateEnv() returns; collectUrls() gives the addresses.
validateEnv_Ok ==
    /\ pc = "validateEnv"
    /\ ValidEnv(env)
    /\ pc' = AfterValidate(collectUrls)
    /\ urlIdx' = 1
    /\ UNCHANGED <<redis, expiry, schedVars, faults, scrapeVars,
                   allListingsMap, cmpVars, callVars, next, err, exitCode,
                   log, histVars>>

\* validateEnv() throws: a required variable is missing, or no address
\* variable is set.
validateEnv_Fail ==
    /\ pc = "validateEnv"
    /\ ~ValidEnv(env)
    /\ Throw("env")
    /\ UNCHANGED <<redis, expiry, schedVars, faults, fetchVars, cmpVars,
                   callVars, next, exitCode, log, histVars>>

(***************************************************************************)
(* scrapeListings(url): two attempts, each with its own browser session.   *)
(***************************************************************************)
url == collectUrls[urlIdx]

\* Mutant of Aggregate: a later record of an id replaces the one held (the
\* has() test is missing).
Aggregate_KeepLast(map, ls) ==
    LET F[i \in 0..Len(ls)] ==
            IF i = 0 THEN map
            ELSE IF \E k \in 1..Len(F[i - 1]) : F[i - 1][k].id = ls[i].id
                 THEN [k \in 1..Len(F[i - 1]) |->
                          IF F[i - 1][k].id = ls[i].id THEN ls[i]
                          ELSE F[i - 1][k]]
                 ELSE Append(F[i - 1], ls[i])
    IN  F[Len(ls)]

\* index.ts 77-81: keep the first record of each id, in insertion order.
RECURSIVE Aggregate(_, _)
Aggregate(map, ls) ==
    IF ls = <<>> THEN map
    ELSE Aggregate(IF \E i \in 1..Len(map) : map[i].id = Head(ls).id
                   THEN map
                   ELSE Append(map, Head(ls)),
                   Tail(ls))

\* chromium.launch succeeds: a session is open.
Launch_Ok ==
    /\ pc = "launch"
    /\ browser' = browser + 1
    /\ outcome' = "none"
    /\ scrapeLog' = Append(scrapeLog, Ev("launch", url, "", TRUE, attempt))
    /\ pc' = "goto"
    /\ UNCHANGED <<redis, expiry, schedVars, faults, urlIdx, attempt,
                   lastError, listings, allListingsMap, cmpVars, callVars,
                   next, err, exitCode, log, histVars>>

\* chromium.launch throws: it stands outside the try block, so the error
\* leaves scrapeListings at once and main() rejects.
Launch_Fail ==
    /\ pc = "launch"
    /\ Fault
    /\ scrapeLog' = Append(scrapeLog, Ev("launch", url, "", FALSE, attempt))
    /\ Throw("launch")
    /\ UNCHANGED <<redis, expiry, schedVars, urlIdx, attempt, browser,
                   lastError, outcome, listings, allListingsMap, cmpVars,
                   callVars, next, exitCode, log, histVars>>

\* page.goto resolves.
Goto_Ok ==
    /\ pc = "goto"
    /\ scrapeLog' = Append(scrapeLog, Ev("goto", url, "", TRUE, attempt))
    /\ pc' = "extract"
    /\ UNCHANGED <<redis, expiry, schedVars, faults, urlIdx, attempt, browser,
                   lastError, outcome, listings, allListingsMap, cmpVars,
                   callVars, next, err, exitCode, log, histVars>>

\* Mutant of AfterFailure: the delay is taken after every failed attempt.
AfterFailure_AlwaysDelays(a) == "retryDelay"

\* scraper.ts 56-59: if (attempt < 2) await delay(RETRY_DELAY); then finally.
AfterFailure(a) == IF a < MaxAttempts THEN "retryDelay" ELSE "close"

\* The catch block of an attempt (scraper.ts 52-59): remember the error and,
\* on the first attempt, wait before the finally block closes the session.
\* What made the first attempt fail may still be there for the second.
AttemptFailed(step) ==
    /\ IF attempt > 1 THEN Persists ELSE Fault
    /\ scrapeLog' = Append(scrapeLog, Ev(step, url, "", FALSE, attempt))
    /\ lastError' = step
    /\ outcome' = "failed"
    /\ pc' = AfterFailure(attempt)
    /\ UNCHANGED <<redis, expiry, schedVars, urlIdx, attempt, browser,
                   listings, allListingsMap, cmpVars, callVars, next, err,
                   exitCode, log, histVars>>

\* page.goto throws (navigation timeout, challenge not cleared).
Goto_Fail == pc = "goto" /\ AttemptFailed("goto")

\* extractFn(page) returns what the page holds (possibly nothing at all).
Extract_Ok ==
    /\ pc = "extract"
    /\ \E page \in PagesOf(url) : listings' = page
    /\ outcome' = "return"
    /\ scrapeLog' = Append(scrapeLog, Ev("extract", url, "", TRUE, attempt))
    /\ pc' = "close"
    /\ UNCHANGED <<redis, expiry, schedVars, faults, urlIdx, attempt, browser,
                   lastError, allListingsMap, cmpVars, callVars, next, err,
                   exitCode, log, histVars>>

\* extractFn(page) throws (the listing selector never appears).
Extract_Fail == pc = "extract" /\ AttemptFailed("extract")

\* await delay(RETRY_DELAY), still inside the catch block.
RetryDelay ==
    /\ pc = "retryDelay"
    /\ scrapeLog' = Append(scrapeLog, Ev("delay", url, "", TRUE, RETRY_DELAY))
    /\ pc' = "close"
    /\ UNCHANGED <<redis, expiry, schedVars, faults, urlIdx, attempt, browser,
                   lastError, outcome, listings, allListingsMap, cmpVars,
                   callVars, next, err, exitCode, log, histVars>>

\* Mutant of AfterFetch: the zero-listings check is missing.
AfterFetch_NoZeroCheck(all) == "hasSeenIds"

\* After the last url: index.ts 84-95.
AfterFetch(all) == IF all = <<>> THEN "notifyZeroListings" ELSE "hasSeenIds"

\* Mutant of GiveUp: the failure of the source is swallowed and main goes on
\* with what the other sources returned.
GiveUp_SourceSkipped == pc' = AfterFetch(allListingsMap) /\ err' = err

\* scraper.ts 65-67: both attempts failed, scrapeListings throws; main does
\* not catch it (index.ts 76).
GiveUp == Throw("scrape")

\* Mutant of Released: the session outlives the attempt.
Released_Kept(b) == b

\* scraper.ts 60-62: browser.close() ends the session of the attempt.
Released(b) == b - 1

\* finally { await browser.close() } succeeds; then the attempt's outcome
\* decides: return the listings to main (which aggregates them and goes on
\* to the next url), loop to the second attempt, or throw after the second.
Close_Ok ==
    /\ pc = "close"
    /\ browser' = Released(browser)
    /\ IF outcome = "return"
       THEN LET all == Aggregate(allListingsMap, listings) IN
            /\ allListingsMap' = all
            /\ listings' = <<>>
            /\ attempt' = 1
            /\ lastError' = "none"
            /\ scrapeLog' = <<>>
            /\ results' = Append(results, listings)
            /\ IF urlIdx < Len(collectUrls)
               THEN urlIdx' = urlIdx + 1 /\ pc' = "launch"
               ELSE urlIdx' = urlIdx /\ pc' = AfterFetch(all)
            /\ err' = err
       ELSE /\ scrapeLog' =
                   Append(scrapeLog, Ev("close", url, "", TRUE, attempt))
            /\ IF attempt < MaxAttempts
               THEN attempt' = attempt + 1 /\ pc' = "launch" /\ err' = err
               ELSE attempt' = attempt /\ GiveUp
            /\ UNCHANGED <<allListingsMap, listings, lastError, urlIdx,
                           results>>
    /\ outcome' = "none"
    /\ UNCHANGED <<redis, expiry, schedVars, faults, cmpVars, callVars, next,
                   exitCode, log, sendVars, redisAtStart>>

\* browser.close() throws inside finally: the error replaces whatever the
\* attempt was about to do, and main() rejects.  The session the call was
\* to end may be gone or may still be there.
Close_Fail ==
    /\ pc = "close"
    /\ Fault
    /\ browser' \in {browser, Released(browser)}
    /\ scrapeLog' = Append(scrapeLog, Ev("close", url, "", FALSE, attempt))
    /\ Throw("close")
    /\ UNCHANGED <<redis, expiry, schedVars, urlIdx, attempt, lastError,
                   outcome, listings, allListingsMap, cmpVars, callVars, next,
                   exitCode, log, histVars>>

(***************************************************************************)
(* store.ts                                                                *)
(***************************************************************************)
\* Mutant of Sadd: the key is overwritten with the new members (a SET, not
\* an SADD).
Sadd_Overwrite(key, values) == [redis EXCEPT ![key] = Range(values)]

\* redis.sadd(key, ...values)
Sadd(key, values) == [redis EXCEPT ![key] = @ \cup Range(values)]

\* Mutant of Exists: the store counts as initialised when either set is
\* there.
Exists_AnyKey(key) == \E k \in DOMAIN redis : redis[k] # {}

\* Mutant of Exists: the store counts as initialised only when both sets
\* are there.
Exists_AllKeys(key) == \A k \in DOMAIN redis : redis[k] # {}

\* redis.exists(key) === 1: a set key exists once it has a member.
Exists(key) == redis[key] # {}

\* Mutant of Smembers: without the String coercion the ids come back as
\* numbers, and no listing id (a string) is ever found among them.
Smembers_Uncoerced(key) == IF key = REDIS_KEY THEN {} ELSE redis[key]

\* redis.smembers(key), each member coerced with String
Smembers(key) == redis[key]

\* A key that SADD creates has no expiry; one that exists keeps its own.
Created(ttl) == IF ttl = NoKey THEN NoExpiry ELSE ttl

\* Mutant of Expire: the expiry is set only on a key that has none.
Expire_OnlyIfNone(key, seconds) ==
    [expiry EXCEPT ![key] = IF @ = NoExpiry THEN seconds ELSE @]

\* redis.expire(key, seconds)
Expire(key, seconds) == [expiry EXCEPT ![key] = seconds]

\* Mutant of Return: main returning ends the process with exit code 1.
Return_ExitsNonZero(r) ==
    pc' = r /\ exitCode' = IF r = "done" THEN 1 ELSE exitCode

\* A store function returns to r; returning to "done" ends main (exit 0).
Return(r) == pc' = r /\ exitCode' = IF r = "done" THEN 0 ELSE exitCode

\* A call of addSeenIds / addSeenFingerprints from main.
Call(fn, a, r) == pc' = fn /\ arg' = a /\ ret' = r

\* store.ts 18-20 / 34-36: nothing at all for an empty list, else sadd.
AddSeen_sadd(fn, fnExpire, key) ==
    /\ pc = fn
    /\ IF arg = <<>>
       THEN Return(ret) /\ UNCHANGED <<redis, expiry, log>>
       ELSE /\ redis' = Sadd(key, arg)
            /\ expiry' = [expiry EXCEPT ![key] = Created(@)]
            /\ log' = Append(log, Ev("sadd", key, "", TRUE, Len(arg)))
            /\ pc' = fnExpire
            /\ exitCode' = exitCode
    /\ UNCHANGED <<schedVars, faults, runVars, histVars>>

\* store.ts 21 / 37: redis.expire(key, TTL_SECONDS), then return.
AddSeen_expire(fnExpire, key) ==
    /\ pc = fnExpire
    /\ log' = Append(log, Ev("expire", key, "", TRUE, 0))
    /\ expiry' = Expire(key, TTL_SECONDS)
    /\ Return(ret)
    /\ UNCHANGED <<redis, schedVars, faults, runVars, histVars>>

addSeenIds_sadd == AddSeen_sadd("addSeenIds", "addSeenIds.expire", REDIS_KEY)
addSeenIds_expire == AddSeen_expire("addSeenIds.expire", REDIS_KEY)
addSeenFingerprints_sadd ==
    AddSeen_sadd("addSeenFingerprints", "addSeenFingerprints.expire",
                 FINGERPRINT_KEY)
addSeenFingerprints_expire ==
    AddSeen_expire("addSeenFingerprints.expire", FINGERPRINT_KEY)

\* The store call the run is about to make, as <<operation, key>>.
StoreCall ==
    CASE pc = "hasSeenIds" -> <<"exists", REDIS_KEY>>
      [] pc = "getSeenIds" -> <<"smembers", REDIS_KEY>>
      [] pc = "getSeenFingerprints" -> <<"smembers", FINGERPRINT_KEY>>
      [] pc = "addSeenIds" /\ arg # <<>> -> <<"sadd", REDIS_KEY>>
      [] pc = "addSeenIds.expire" -> <<"expire", REDIS_KEY>>
      [] pc = "addSeenFingerprints" /\ arg # <<>> -> <<"sadd", FINGERPRINT_KEY>>
      [] pc = "addSeenFingerprints.expire" -> <<"expire", FINGERPRINT_KEY>>
      [] OTHER -> <<"none", "none">>

\* Mutant of StoreUnavailable: the rejection is swallowed and main goes
\* on to the dispatch with what it has.
StoreUnavailable_Ignored == pc' = "afterAddSeenIds" /\ err' = err

\* No call of a store function in main() stands in a try block (index.ts
\* 95-145): the rejection leaves main().
StoreUnavailable == Throw("redis")

\* Any store call rejects (store unreachable): nothing is written by it and
\* main() rejects.
Redis_Fail ==
    /\ StoreCall[1] # "none"
    /\ Fault
    /\ log' = Append(log, Ev(StoreCall[1], StoreCall[2], "", FALSE, 0))
    /\ StoreUnavailable
    /\ UNCHANGED <<redis, expiry, schedVars, fetchVars, cmpVars, callVars,
                   next, exitCode, histVars>>

(***************************************************************************)
(* index.ts main, after the fetch loop.                                    *)
(***************************************************************************)
\* Mutant of NewById: the id filter is missing.
NewById_NoFilter(all, ids) == all

\* index.ts 111
NewById(all, ids) == SelectSeq(all, LAMBDA l : l.id \notin ids)

\* Mutant of GenuinelyNew: the repost check is missing.
GenuinelyNew_NoRepostCheck(newById, fps) == newById

\* Mutant of GenuinelyNew: a listing is also suppressed by an earlier
\* sibling of the same batch with the same fingerprint.
GenuinelyNew_DedupInBatch(newById, fps) ==
    LET keep == {i \in 1..Len(newById) :
                    /\ getFingerprint(newById[i]) \notin fps
                    /\ \A j \in 1..(i - 1) :
                           getFingerprint(newById[j]) # getFingerprint(newById[i])}
        F[i \in 0..Len(newById)] ==
            IF i = 0 THEN <<>>
            ELSE IF i \in keep THEN Append(F[i - 1], newById[i]) ELSE F[i - 1]
    IN  F[Len(newById)]

\* Mutant of GenuinelyNew: the order of the list depends on the run.
GenuinelyNew_RunDependent(newById, fps) ==
    LET kept == SelectSeq(newById, LAMBDA l : getFingerprint(l) \notin fps)
    IN  IF runNo % 2 = 0
        THEN [i \in 1..Len(kept) |-> kept[Len(kept) + 1 - i]]
        ELSE kept

\* index.ts 117-126, the else branch of the loop
GenuinelyNew(newById, fps) ==
    SelectSeq(newById, LAMBDA l : getFingerprint(l) \notin fps)

\* index.ts 117-126, the then branch of the loop
Reposts(newById, fps) ==
    SelectSeq(newById, LAMBDA l : getFingerprint(l) \in fps)

\* Mutant of TrackedIds: only the notified listings are tracked.
TrackedIds_GenuineOnly(newById, genuine) == IdsOf(genuine)

\* index.ts 133: the ids handed to addSeenIds on the new-listing path
TrackedIds(newById, genuine) == IdsOf(newById)

\* Mutant of TrackNewIds: dispatch starts without the ids being tracked
\* first.
TrackNewIds_DispatchFirst(newById, genuine) ==
    /\ pc' = IF genuine # <<>> THEN "notifyNewListings" ELSE "syncFingerprints"
    /\ UNCHANGED callVars

\* index.ts 132-133: on the new-listing path the ids are tracked first;
\* dispatch follows when addSeenIds has returned.
TrackNewIds(newById, genuine) ==
    Call("addSeenIds", TrackedIds(newById, genuine), "afterAddSeenIds")

\* Mutant of SyncedFingerprints: only the new listings are fingerprinted.
SyncedFingerprints_NewOnly(all) == FingerprintsOf(genuinelyNew)

\* index.ts 100 and 145: the fingerprints handed to addSeenFingerprints
SyncedFingerprints(all) == FingerprintsOf(all)

\* Mutant of SeededIds: the first run seeds the id of the first listing
\* only.
SeededIds_FirstOnly(all) == IdsOf(SubSeq(all, 1, 1))

\* index.ts 97: allListings.map((l) => l.id)
SeededIds(all) == IdsOf(all)

\* Mutant of AfterSeedIds: the initialization message goes out right
\* after the ids are seeded.
AfterSeedIds_NotifiesFirst == "notifyInitialized"

\* index.ts 98-100: after addSeenIds(ids) comes the fingerprint seeding.
AfterSeedIds == "seedFingerprints"

\* index.ts 95-99: hasSeenIds(), and on a first run the call that seeds ids.
hasSeenIds_Ok ==
    /\ pc = "hasSeenIds"
    /\ log' = Append(log, Ev("exists", REDIS_KEY, "", TRUE, 0))
    /\ isFirstRun' = ~Exists(REDIS_KEY)
    /\ IF ~Exists(REDIS_KEY)
       THEN Call("addSeenIds", SeededIds(allListingsMap), AfterSeedIds)
       ELSE pc' = "getSeenIds" /\ UNCHANGED callVars
    /\ UNCHANGED <<redis, expiry, schedVars, faults, fetchVars, seenIds,
                   seenFps, newByIdListings, genuinelyNew, reposts, next, err,
                   exitCode, histVars>>

\* Mutant of SeedFingerprints: the first run seeds the ids only.
SeedFingerprints_Skipped ==
    /\ pc = "seedFingerprints"
    /\ pc' = "notifyInitialized"
    /\ UNCHANGED <<redis, expiry, schedVars, faults, fetchVars, cmpVars,
                   callVars, next, err, exitCode, log, histVars>>

\* index.ts 100: first run, seed the fingerprints of the whole batch.
SeedFingerprints ==
    /\ pc = "seedFingerprints"
    /\ Call("addSeenFingerprints", SyncedFingerprints(allListingsMap),
            "notifyInitialized")
    /\ UNCHANGED <<redis, expiry, schedVars, faults, fetchVars, cmpVars, next,
                   err, exitCode, log, histVars>>

\* index.ts 107
getSeenIds_Ok ==
    /\ pc = "getSeenIds"
    /\ log' = Append(log, Ev("smembers", REDIS_KEY, "", TRUE, 0))
    /\ seenIds' = Smembers(REDIS_KEY)
    /\ pc' = "getSeenFingerprints"
    /\ UNCHANGED <<redis, expiry, schedVars, faults, fetchVars, isFirstRun,
                   seenFps, newByIdListings, genuinelyNew, reposts, callVars,
                   next, err, exitCode, histVars>>

\* index.ts 108-133: read the fingerprints, classify, and on the
\* new-listing path call addSeenIds; with nothing new go to the sync.
getSeenFingerprints_Ok ==
    /\ pc = "getSeenFingerprints"
    /\ log' = Append(log, Ev("smembers", FINGERPRINT_KEY, "", TRUE, 0))
    /\ LET fps == Smembers(FINGERPRINT_KEY)
           newById == NewById(allListingsMap, seenIds)
           genuine == GenuinelyNew(newById, fps)
       IN  /\ seenFps' = fps
           /\ newByIdListings' = newById
           /\ IF newById = <<>>
              THEN /\ genuinelyNew' = <<>>
                   /\ reposts' = <<>>
                   /\ pc' = "syncFingerprints"
                   /\ UNCHANGED <<callVars, everNew>>
              ELSE /\ genuinelyNew' = genuine
                   /\ reposts' = Reposts(newById, fps)
                   /\ everNew' = everNew \cup Range(IdsOf(genuine))
                   /\ TrackNewIds(newById, genuine)
    /\ UNCHANGED <<redis, expiry, schedVars, faults, fetchVars, isFirstRun,
                   seenIds, next, err, exitCode, sendCount, delivered,
                   dispatched, crashes, obsVars>>

\* index.ts 135-140: dispatch if anything is genuinely new.
AfterAddSeenIds ==
    /\ pc = "afterAddSeenIds"
    /\ IF genuinelyNew # <<>>
       THEN /\ pc' = "notifyNewListings"
            /\ dispatched' =
                   [i \in Ids |->
                       IF i \in Range(IdsOf(newByIdListings))
                          /\ dispatched[i] = 0
                       THEN runNo ELSE dispatched[i]]
       ELSE /\ pc' = "syncFingerprints"
            /\ UNCHANGED dispatched
    /\ UNCHANGED <<redis, expiry, schedVars, faults, runVars, exitCode, log,
                   sendCount, delivered, everNew, crashes, obsVars>>

\* index.ts 145: sync the fingerprints of the whole batch, then main ends.
SyncFingerprints ==
    /\ pc = "syncFingerprints"
    /\ Call("addSeenFingerprints", SyncedFingerprints(allListingsMap), "done")
    /\ UNCHANGED <<redis, expiry, schedVars, faults, fetchVars, cmpVars, next,
                   err, exitCode, log, histVars>>

(***************************************************************************)
(* notifier.ts                                                             *)
(***************************************************************************)
\* sendTelegramMessage(text) for a message of the given kind.
Sent(kind, id, ok) == Ev("send", kind, id, ok, 0)

\* await delay(500)
Paced == Ev("delay", "pacing", "", TRUE, PacingDelay)

\* notifyZeroListings(); main returns after it (index.ts 88-92).
notifyZeroListings_Ok ==
    /\ pc = "notifyZeroListings"
    /\ log' = Append(log, Sent("zero", "", TRUE))
    /\ Return("done")
    /\ UNCHANGED <<redis, expiry, schedVars, faults, runVars, histVars>>

\* The send rejects: nothing catches it before main().catch.
notifyZeroListings_Fail ==
    /\ pc = "notifyZeroListings"
    /\ Fault
    /\ log' = Append(log, Sent("zero", "", FALSE))
    /\ Throw("telegram")
    /\ UNCHANGED <<redis, expiry, schedVars, fetchVars, cmpVars, callVars,
                   next, exitCode, histVars>>

\* notifyInitialized(); main returns after it (index.ts 102-103).
notifyInitialized_Ok ==
    /\ pc = "notifyInitialized"
    /\ log' = Append(log, Sent("init", "", TRUE))
    /\ Return("done")
    /\ UNCHANGED <<redis, expiry, schedVars, faults, runVars, histVars>>

notifyInitialized_Fail ==
    /\ pc = "notifyInitialized"
    /\ Fault
    /\ log' = Append(log, Sent("init", "", FALSE))
    /\ Throw("telegram")
    /\ UNCHANGED <<redis, expiry, schedVars, fetchVars, cmpVars, callVars,
                   next, exitCode, histVars>>

\* console.error in the catch block of the loop (notifyNewListings 58).
Logged(id) == Ev("console.error", "listing", id, TRUE, 0)

\* Mutant of SummaryCount: the summary counts every new-by-id listing,
\* reposts included.
SummaryCount_WithReposts(ls) == Len(newByIdListings)

\* notifyNewListings 48: the number the summary reports, listings.length
SummaryCount(ls) == Len(ls)

\* The summary message of notifyNewListings(ls).
SummarySent(ls, ok) == Ev("send", "summary", "", ok, SummaryCount(ls))

\* notifyNewListings 46: whether the summary is sent first.
NeedsSummary(ls) == Len(ls) >= SummaryThreshold

\* Mutant of AfterSummary: no delay follows the summary.
AfterSummary_NoDelay == <<>>

\* notifyNewListings 50: await delay(500) after the summary.
AfterSummary == <<Paced>>

\* notifyNewListings 46-51: the summary is sent, then delay(500).
Summary_Ok ==
    /\ pc = "notifyNewListings"
    /\ NeedsSummary(genuinelyNew)
    /\ log' = log \o <<SummarySent(genuinelyNew, TRUE)>> \o AfterSummary
    /\ next' = 1
    /\ pc' = "notifyNewListing"
    /\ UNCHANGED <<redis, expiry, schedVars, faults, fetchVars, cmpVars,
                   callVars, err, exitCode, histVars>>

\* The summary send rejects outside any try block: notifyNewListings
\* rejects, and so does main().
Summary_Fail ==
    /\ pc = "notifyNewListings"
    /\ NeedsSummary(genuinelyNew)
    /\ Fault
    /\ log' = Append(log, SummarySent(genuinelyNew, FALSE))
    /\ Throw("telegram")
    /\ UNCHANGED <<redis, expiry, schedVars, fetchVars, cmpVars, callVars,
                   next, exitCode, histVars>>

\* Fewer than five listings: straight to the loop.
NoSummary ==
    /\ pc = "notifyNewListings"
    /\ ~NeedsSummary(genuinelyNew)
    /\ next' = 1
    /\ pc' = "notifyNewListing"
    /\ UNCHANGED <<redis, expiry, schedVars, faults, fetchVars, cmpVars,
                   callVars, err, exitCode, log, histVars>>

\* Mutant of AfterListing: the loop is left after its first listing.
AfterListing_ReturnsEarly(n) == "syncFingerprints"

\* The loop goes on, or notifyNewListings returns to index.ts 137.
AfterListing(n) ==
    IF n > Len(genuinelyNew) THEN "syncFingerprints" ELSE "notifyNewListing"

\* Mutant of AfterFailedListing: a failed send ends the loop.
AfterFailedListing_Aborts(n) == "syncFingerprints"

\* notifyNewListings 57-59: the catch block falls through to the next
\* iteration of the loop.
AfterFailedListing(n) == AfterListing(n)

\* notifyNewListings 53-56: the message for one listing is sent, then
\* delay(500).
notifyNewListing_Ok ==
    /\ pc = "notifyNewListing"
    /\ LET id == genuinelyNew[next].id IN
       /\ log' = log \o <<Sent("listing", id, TRUE), Paced>>
       /\ sendCount' = [sendCount EXCEPT ![id] = @ + 1]
       /\ delivered' = [delivered EXCEPT ![id] = @ + 1]
    /\ next' = next + 1
    /\ pc' = AfterListing(next + 1)
    /\ UNCHANGED <<redis, expiry, schedVars, faults, fetchVars, cmpVars,
                   callVars, err, exitCode, everNew, dispatched, crashes,
                   obsVars>>

\* notifyNewListings 57-59: the send rejects; it is logged and the loop
\* goes on (the delay is skipped).
notifyNewListing_Fail ==
    /\ pc = "notifyNewListing"
    /\ Fault
    /\ LET id == genuinelyNew[next].id IN
       /\ log' = log \o <<Sent("listing", id, FALSE), Logged(id)>>
       /\ sendCount' = [sendCount EXCEPT ![id] = @ + 1]
    /\ next' = next + 1
    /\ pc' = AfterFailedListing(next + 1)
    /\ UNCHANGED <<redis, expiry, schedVars, fetchVars, cmpVars, callVars,
                   err, exitCode, delivered, everNew, dispatched, crashes,
                   obsVars>>

(***************************************************************************)
(* index.ts 161-166: main().catch, and the process being killed.           *)
(***************************************************************************)
\* notifier.ts 3-4: without the bot token or the chat id the Telegram API
\* answers every request with an error.
CanSend == env["TELEGRAM_BOT_TOKEN"] # <<>> /\ env["TELEGRAM_CHAT_ID"] # <<>>

\* Mutant of AfterNotifyError: notifyError lets the failure of its own send
\* out, and the process dies in the handler before process.exit(1).
AfterNotifyError_Unhandled(ok) == IF ok THEN "failed" ELSE "crashed"

\* Mutant of AfterNotifyError: process.exit(1) is missing and the process
\* stays alive after the notification.
AfterNotifyError_NoExit(ok) == "notified"

\* notifier.ts 63-70, index.ts 164-165: notifyError catches the failure of
\* its own send, so the handler reaches process.exit(1) either way.
AfterNotifyError(ok) == "failed"

\* notifyError sends; process.exit(1).
notifyError_Ok ==
    /\ pc = "catch"
    /\ CanSend
    /\ log' = Append(log, Sent("error", "", TRUE))
    /\ pc' = AfterNotifyError(TRUE)
    /\ exitCode' = IF pc' = "failed" THEN 1 ELSE exitCode
    /\ UNCHANGED <<redis, expiry, schedVars, faults, runVars, histVars>>

\* notifyError's own send rejects: caught inside notifyError; exit(1).
notifyError_Fail ==
    /\ pc = "catch"
    /\ Persists
    /\ log' = Append(log, Sent("error", "", FALSE))
    /\ pc' = AfterNotifyError(FALSE)
    /\ exitCode' = IF pc' = "failed" THEN 1 ELSE exitCode
    /\ UNCHANGED <<redis, expiry, schedVars, runVars, histVars>>

\* notifyNewListings is running.
InDispatch == pc \in {"notifyNewListings", "notifyNewListing"}

\* The process is killed from outside (scheduler timeout, runner lost) in
\* the middle of a run: nothing more of this run happens.
Crash ==
    /\ pc \notin Terminal
    /\ Fault
    /\ pc' = "crashed"
    /\ crashes' = IF InDispatch THEN crashes \cup {runNo} ELSE crashes
    /\ UNCHANGED <<redis, expiry, schedVars, runVars, exitCode, log,
                   sendCount, delivered, everNew, dispatched, obsVars>>

Next ==
    \/ StartRun
    \/ validateEnv_Ok \/ validateEnv_Fail
    \/ Launch_Ok \/ Launch_Fail
    \/ Goto_Ok \/ Goto_Fail
    \/ Extract_Ok \/ Extract_Fail
    \/ RetryDelay
    \/ Close_Ok \/ Close_Fail
    \/ hasSeenIds_Ok \/ SeedFingerprints
    \/ getSeenIds_Ok \/ getSeenFingerprints_Ok
    \/ addSeenIds_sadd \/ addSeenIds_expire
    \/ addSeenFingerprints_sadd \/ addSeenFingerprints_expire
    \/ Redis_Fail
    \/ AfterAddSeenIds \/ SyncFingerprints
    \/ notifyZeroListings_Ok \/ notifyZeroListings_Fail
    \/ notifyInitialized_Ok \/ notifyInitialized_Fail
    \/ Summary_Ok \/ Summary_Fail \/ NoSummary
    \/ notifyNewListing_Ok \/ notifyNewListing_Fail
    \/ notifyError_Ok \/ notifyError_Fail
    \/ Crash

Spec == Init /\ [][Next]_vars

(***************************************************************************)
(* One run in which every external call returns or fails in the end and   *)
(* the process is not killed: a run that can take a step takes one.        *)
(***************************************************************************)
\* The scheduler invokes main() once.
StartOnce == runNo = 0 /\ Begin(redis, expiry, prev)

NextLive ==
    \/ StartOnce
    \/ validateEnv_Ok \/ validateEnv_Fail
    \/ Launch_Ok \/ Launch_Fail
    \/ Goto_Ok \/ Goto_Fail
    \/ Extract_Ok \/ Extract_Fail
    \/ RetryDelay
    \/ Close_Ok \/ Close_Fail
    \/ hasSeenIds_Ok \/ SeedFingerprints
    \/ getSeenIds_Ok \/ getSeenFingerprints_Ok
    \/ addSeenIds_sadd \/ addSeenIds_expire
    \/ addSeenFingerprints_sadd \/ addSeenFingerprints_expire
    \/ Redis_Fail
    \/ AfterAddSeenIds \/ SyncFingerprints
    \/ notifyZeroListings_Ok \/ notifyZeroListings_Fail
    \/ notifyInitialized_Ok \/ notifyInitialized_Fail
    \/ Summary_Ok \/ Summary_Fail \/ NoSummary
    \/ notifyNewListing_Ok \/ notifyNewListing_Fail
    \/ notifyError_Ok \/ notifyError_Fail

\* A step of the run in progress.
RunStep == pc \notin Terminal /\ NextLive

SpecLive == Init /\ [][NextLive]_vars /\ WF_vars(RunStep)

(***************************************************************************)
(* The scheduler invoking main() every RunInterval seconds, all services   *)
(* up and the configuration complete.                                      *)
(***************************************************************************)
InitTtl == Init /\ env = EnvGood

NextTtl ==
    \/ StartRunLater
    \/ validateEnv_Ok
    \/ Launch_Ok
    \/ Goto_Ok
    \/ Extract_Ok
    \/ Close_Ok
    \/ hasSeenIds_Ok \/ SeedFingerprints
    \/ getSeenIds_Ok \/ getSeenFingerprints_Ok
    \/ addSeenIds_sadd \/ addSeenIds_expire
    \/ addSeenFingerprints_sadd \/ addSeenFingerprints_expire
    \/ AfterAddSeenIds \/ SyncFingerprints
    \/ notifyZeroListings_Ok
    \/ notifyInitialized_Ok
    \/ Summary_Ok \/ NoSummary
    \/ notifyNewListing_Ok

SpecTtl == InitTtl /\ [][NextTtl]_vars

(***************************************************************************)
(* One invocation following another at once, the configuration complete   *)
(* and the store the only service that fails.                              *)
(***************************************************************************)
InitRepeat == Init /\ env = EnvGood

NextRepeat ==
    \/ StartNext
    \/ validateEnv_Ok
    \/ Launch_Ok
    \/ Goto_Ok
    \/ Extract_Ok
    \/ Close_Ok
    \/ hasSeenIds_Ok \/ SeedFingerprints
    \/ getSeenIds_Ok \/ getSeenFingerprints_Ok
    \/ addSeenIds_sadd \/ addSeenIds_expire
    \/ addSeenFingerprints_sadd \/ addSeenFingerprints_expire
    \/ Redis_Fail
    \/ AfterAddSeenIds \/ SyncFingerprints
    \/ notifyZeroListings_Ok
    \/ notifyInitialized_Ok
    \/ Summary_Ok \/ NoSummary
    \/ notifyNewListing_Ok
    \/ notifyError_Ok

SpecRepeat == InitRepeat /\ [][NextRepeat]_vars

(***************************************************************************)
(* store.ts on its own: addSeenIds and addSeenFingerprints called with any *)
(* list, the empty one included, time passing between the calls.           *)
(***************************************************************************)
IdLists == {<<>>, IdsOf(PageA), IdsOf(PageC)}
FingerprintLists == {<<>>, FingerprintsOf(PageA), FingerprintsOf(PageB)}

\* No store function is running: none was called yet, the last one has
\* returned, or it has thrown.
Returned == {"idle", "catch"}

\* A caller calls fn with one of the lists; the call starts a log of its
\* own, and the store as the call found it is recorded.
CallStore(fn, lists) ==
    /\ pc \in Returned
    /\ \E a \in lists : Call(fn, a, "idle")
    /\ log' = <<>>
    /\ prev' = Ended(fn)
    /\ UNCHANGED <<redis, expiry, runNo, env, other, input, output, faults,
                   fetchVars, cmpVars, next, err, exitCode, histVars>>

CallAddSeenIds == CallStore("addSeenIds", IdLists)
CallAddSeenFingerprints == CallStore("addSeenFingerprints", FingerprintLists)

\* RunInterval seconds pass between two calls.
TimePasses ==
    /\ pc \in Returned
    /\ \E k \in DOMAIN expiry : expiry[k] >= 0
    /\ redis' = StoreAfter(RunInterval)
    /\ expiry' = ExpiryAfter(RunInterval)
    /\ prev' = Ended("idle")
    /\ UNCHANGED <<pc, runNo, env, other, input, output, faults, runVars,
                   exitCode, log, histVars>>

InitStore == Init /\ env = EnvGood

NextStore ==
    \/ CallAddSeenIds \/ CallAddSeenFingerprints
    \/ addSeenIds_sadd \/ addSeenIds_expire
    \/ addSeenFingerprints_sadd \/ addSeenFingerprints_expire
    \/ Redis_Fail
    \/ TimePasses

SpecStore == InitStore /\ [][NextStore]_vars

(***************************************************************************)
(* Two invocations of main() that overlap: the scheduler starts a second   *)
(* process while the first has not ended.  Each process runs main() once;  *)
(* at every await the other process may be the one that goes on.  The two  *)
(* share the store and the chat, and nothing else.                         *)
(***************************************************************************)
InitOverlap == Init /\ env = EnvGood

\* The scheduler invokes main() in a process that has not run yet.
StartProcess == pc = "idle" /\ Begin(redis, expiry, prev)

\* The process in `other` goes on and the one that was running waits.  A
\* process that has ended has nothing left to do.
Switch ==
    /\ other.pc \notin {"done", "failed", "crashed"}
    /\ other' = ThisRun
    /\ pc' = other.pc
    /\ runNo' = other.runNo
    /\ urlIdx' = other.urlIdx
    /\ attempt' = other.attempt
    /\ browser' = other.browser
    /\ lastError' = other.lastError
    /\ scrapeLog' = other.scrapeLog
    /\ outcome' = other.outcome
    /\ listings' = other.listings
    /\ allListingsMap' = other.allListingsMap
    /\ isFirstRun' = other.isFirstRun
    /\ seenIds' = other.seenIds
    /\ seenFps' = other.seenFps
    /\ newByIdListings' = other.newByIdListings
    /\ genuinelyNew' = other.genuinelyNew
    /\ reposts' = other.reposts
    /\ arg' = other.arg
    /\ ret' = other.ret
    /\ next' = other.next
    /\ err' = other.err
    /\ exitCode' = other.exitCode
    /\ log' = other.log
    /\ results' = other.results
    /\ redisAtStart' = other.redisAtStart
    /\ UNCHANGED <<redis, expiry, env, prev, input, output, faults, sendVars>>

NextOverlap ==
    \/ StartProcess \/ Switch
    \/ validateEnv_Ok
    \/ Launch_Ok \/ Goto_Ok \/ Extract_Ok \/ Close_Ok
    \/ hasSeenIds_Ok \/ SeedFingerprints
    \/ getSeenIds_Ok \/ getSeenFingerprints_Ok
    \/ addSeenIds_sadd \/ addSeenIds_expire
    \/ addSeenFingerprints_sadd \/ addSeenFingerprints_expire
    \/ AfterAddSeenIds \/ SyncFingerprints
    \/ notifyZeroListings_Ok \/ notifyInitialized_Ok
    \/ Summary_Ok \/ NoSummary \/ notifyNewListing_Ok

SpecOverlap == InitOverlap /\ [][NextOverlap]_vars

(***************************************************************************)
(* getFingerprint on its own: called on two listings as an adapter can     *)
(* return them, with every field of the Listing type (scraper.ts).         *)
(***************************************************************************)
\* scraper.ts 139: return { id, title, price, url: fullUrl, location, imageUrl }
FullListing(i, t, p, u, l, im) ==
    [id |-> i, title |-> t, price |-> p, url |-> u, location |-> l,
     imageUrl |-> im]

\* Titles as a page shows them: letter case and whitespace vary, and "|"
\* is a character like any other.
Titles ==
    {<<"a">>, <<"A">>, <<" ", "a", "\t">>, <<"a", " ", "b">>,
     <<"A", "\t", " ", "B", " ">>, <<"a", "b">>, <<"a", "|">>}

Prices ==
    {<<"1">>, <<" ", "1">>, <<"1", " ", "2">>, <<"1", "2", "\t">>,
     <<"|", "1">>}

\* The fields getFingerprint does not read.
OtherFields ==
    {[id |-> "1001", url |-> "x", location |-> "", imageUrl |-> ""],
     [id |-> "2001", url |-> "y", location |-> "Zagreb", imageUrl |-> ""],
     [id |-> "2001", url |-> "x", location |-> "", imageUrl |-> "img"]}

ListingsWith(others) ==
    {FullListing(o.id, t, p, o.url, o.location, o.imageUrl) :
        t \in Titles, p \in Prices, o \in others}

InitFingerprint ==
    /\ InitMain
    /\ env = EnvGood
    /\ redis = StoreAfterFirstRun(<<>>)
    /\ input \in ListingsWith(OtherFields)
                \X ListingsWith({[id |-> "1001", url |-> "x",
                                  location |-> "", imageUrl |-> ""]})
    /\ output = <<>>

\* getFingerprint is applied to both listings.
CallGetFingerprint ==
    /\ output = <<>>
    /\ output' = [i \in 1..Len(input) |-> getFingerprint(input[i])]
    /\ UNCHANGED <<redis, expiry, pc, runNo, env, prev, other, input, faults,
                   runVars, exitCode, log, histVars>>

NextFingerprint == CallGetFingerprint

SpecFingerprint == InitFingerprint /\ [][NextFingerprint]_vars

(***************************************************************************)
(* The site label on its own: scrapeListings picks the adapter by the host *)
(* of the search page, the adapter builds the url of a listing from the    *)
(* href on the page, and notifyNewListing derives the label from that url. *)
(* An address is a sequence of tokens: the scheme, the labels of the host, *)
(* and the segments of the path.                                           *)
(***************************************************************************)
Scheme == "https://"

\* String.prototype.includes, at the granularity of tokens.
Includes(s, token) == \E i \in 1..Len(s) : s[i] = token

\* href.startsWith("http")
StartsWithHttp(s) == s # <<>> /\ Head(s) = Scheme

\* new URL(url).hostname: what stands between the scheme and the path.
Hostname(address) ==
    LET slashes == {i \in 2..Len(address) : address[i] = "/"}
        end == IF slashes = {} THEN Len(address) + 1
               ELSE CHOOSE i \in slashes : \A j \in slashes : i <= j
    IN  SubSeq(address, 2, end - 1)

\* scraper.ts 22-32: the adapter scrapeListings picks for a search page.
Adapter(address) ==
    LET domain == Hostname(address)
    IN  IF Includes(domain, "njuskalo.hr") THEN "extractNjuskaloListings"
        ELSE IF Includes(domain, "index.hr") THEN "extractIndexHrListings"
        ELSE IF Includes(domain, "oglasnik.hr")
             THEN "extractOglasnikListings"
        ELSE IF Includes(domain, "nekretnine.hr")
             THEN "extractNekretnineListings"
        ELSE "Unsupported site"

\* scraper.ts 111-113, 157-159, 212-214, 279-281: what each adapter puts in
\* front of an href that is not absolute.
Origin(adapter) ==
    CASE adapter = "extractNjuskaloListings"
            -> <<Scheme, "www.", "njuskalo.hr">>
      [] adapter = "extractIndexHrListings"
            -> <<Scheme, "www.", "index.hr">>
      [] adapter = "extractOglasnikListings"
            -> <<Scheme, "oglasnik.hr">>
      [] adapter = "extractNekretnineListings"
            -> <<Scheme, "www.", "nekretnine.hr">>

\* const fullUrl = href.startsWith("http") ? href : `${origin}${href}`
FullUrl(adapter, href) ==
    IF StartsWithHttp(href) THEN href ELSE Origin(adapter) \o href

\* notifier.ts notifyNewListing: siteName ("Njuskalo" stands for the name
\* with its diacritic).
SiteName(address) ==
    IF Includes(address, "index.hr") THEN "Index Oglasi"
    ELSE IF Includes(address, "oglasnik.hr") THEN "Oglasnik"
    ELSE "Njuskalo"

\* The hosts of search pages and of absolute hrefs.
Hosts ==
    {<<"www.", "njuskalo.hr">>, <<"njuskalo.hr">>,
     <<"www.", "index.hr">>, <<"index.hr">>,
     <<"www.", "oglasnik.hr">>, <<"oglasnik.hr">>,
     <<"www.", "nekretnine.hr">>, <<"nekretnine.hr">>,
     <<"www.", "example.com">>}

\* The paths of listings: a path may quote the name of a site.
Paths ==
    {<<"/", "oglas-1">>, <<"/", "oglasi", "/", "1">>,
     <<"/", "index.hr", "/", "oglas-1">>,
     <<"/", "oglasnik.hr", "/", "oglas-1">>}

SearchPages == {<<Scheme>> \o h \o <<"/", "search">> : h \in Hosts}

Hrefs == Paths \cup {<<Scheme>> \o h \o <<"/", "oglas-1">> : h \in Hosts}

InitLabel ==
    /\ InitMain
    /\ env = EnvGood
    /\ redis = StoreAfterFirstRun(<<>>)
    /\ input \in [page : SearchPages, href : Hrefs]
    /\ output = <<>>

\* scrapeListings(input.page) on a page of a site it knows: the adapter
\* returns the listing the href belongs to.
ScrapeListing ==
    /\ output = <<>>
    /\ Adapter(input.page) # "Unsupported site"
    /\ output' = [adapter |-> Adapter(input.page),
                  url |-> FullUrl(Adapter(input.page), input.href),
                  siteName |-> ""]
    /\ UNCHANGED <<redis, expiry, pc, runNo, env, prev, other, input, faults,
                   runVars, exitCode, log, histVars>>

\* scrapeListings(input.page) on any other page throws.
ScrapeUnsupported ==
    /\ output = <<>>
    /\ Adapter(input.page) = "Unsupported site"
    /\ output' = [adapter |-> "Unsupported site", url |-> <<>>,
                  siteName |-> ""]
    /\ UNCHANGED <<redis, expiry, pc, runNo, env, prev, other, input, faults,
                   runVars, exitCode, log, histVars>>

\* notifyNewListing(listing) builds the message for the listing.
LabelListing ==
    /\ output # <<>>
    /\ output.url # <<>>
    /\ output.siteName = ""
    /\ output' = [output EXCEPT !.siteName = SiteName(output.url)]
    /\ UNCHANGED <<redis, expiry, pc, runNo, env, prev, other, input, faults,
                   runVars, exitCode, log, histVars>>

NextLabel == ScrapeListing \/ ScrapeUnsupported \/ LabelListing

SpecLabel == InitLabel /\ [][NextLabel]_vars

(***************************************************************************)
(* Reading the log of the current run.                                     *)
(***************************************************************************)
IsSend(e, kind) == e.op = "send" /\ e.arg = kind
SendsOf(kind) == SelectSeq(log, LAMBDA e : IsSend(e, kind))
ListingSends(id) == SelectSeq(log, LAMBDA e : IsSend(e, "listing") /\ e.id = id)
AllSends == SelectSeq(log, LAMBDA e : e.op = "send")
IsDispatchSend(e) == IsSend(e, "summary") \/ IsSend(e, "listing")
IsWrite(e, key) == e.op = "sadd" /\ e.arg = key /\ e.ok

BatchIds == Range(IdsOf(allListingsMap))
NewByIdIds == Range(IdsOf(newByIdListings))
GenuinelyNewIds == Range(IdsOf(genuinelyNew))
RepostIds == Range(IdsOf(reposts))

(***************************************************************************)
(* Claims.                                                                 *)
(***************************************************************************)

C2_AtMostOneSendPerId == \A id \in Ids : sendCount[id] <= 1

\* C2 witness: a listing notified by an earlier run is in the batch of a
\* later run that has completed.
C2_Witness ==
    /\ pc = "done"
    /\ Classified
    /\ \E id \in BatchIds :
          /\ sendCount[id] = 1
          /\ dispatched[id] # 0
          /\ dispatched[id] < runNo

\* C3 as stated: every id a run classifies as genuinely new has exactly one
\* per-listing message delivered, whatever send failures occur; here for the
\* ids of a run that went on to complete.
C3_DeliveredExactlyOnce ==
    pc = "done" => \A id \in GenuinelyNewIds : delivered[id] = 1

\* C3 as amended: an id classified genuinely new is notified at most once
\* (at most one send attempt ever, at most one delivery, and only ids some
\* run classified genuinely new are ever sent); a run that completes has
\* made exactly one send attempt for each of its genuinely-new listings, and
\* the message is delivered exactly when that attempt succeeded.
C3_AtMostOnceDelivery ==
    /\ \A id \in Ids :
          /\ sendCount[id] <= 1
          /\ delivered[id] <= sendCount[id]
          /\ sendCount[id] > 0 => id \in everNew
    /\ pc = "done"
          => \A id \in GenuinelyNewIds :
                /\ sendCount[id] = 1
                /\ Len(ListingSends(id)) = 1
                /\ delivered[id] = IF ListingSends(id)[1].ok THEN 1 ELSE 0

\* C3 witness: a completed run with one genuinely-new listing delivered and
\* another whose send failed.
C3_Witness ==
    /\ pc = "done"
    /\ \E a, b \in GenuinelyNewIds : delivered[a] = 1 /\ delivered[b] = 0

\* C4: on a first run (identity set absent, batch not empty) nothing is
\* classified new-by-id, genuinely new or repost, and no per-listing or
\* summary message is sent; when the run completes the only message sent is
\* one initialization message, and the identity set and the fingerprint set
\* hold the ids and the fingerprints of the whole batch.
C4_FirstRunSeeds ==
    isFirstRun
       => /\ allListingsMap # <<>>
          /\ newByIdListings = <<>> /\ genuinelyNew = <<>> /\ reposts = <<>>
          /\ \A i \in LogIdx : ~IsDispatchSend(log[i])
          /\ pc = "done"
                => /\ AllSends = <<Sent("init", "", TRUE)>>
                   /\ BatchIds \subseteq redis[REDIS_KEY]
                   /\ Range(FingerprintsOf(allListingsMap))
                         \subseteq redis[FINGERPRINT_KEY]

\* C4 witness: a first run over a batch of several listings has completed.
C4_Witness == isFirstRun /\ pc = "done" /\ Len(allListingsMap) >= 2

\* C5: in a non-first run a listing whose id is in the identity set as read
\* is in neither the genuinely-new nor the repost output, and no listing
\* message is sent for it, whatever its title, price or fingerprint.
C5_SeenByIdExcluded ==
    ~isFirstRun
       => \A i \in 1..Len(allListingsMap) :
             allListingsMap[i].id \in seenIds
                => /\ allListingsMap[i] \notin Range(genuinelyNew)
                   /\ allListingsMap[i] \notin Range(reposts)
                   /\ allListingsMap[i].id \notin GenuinelyNewIds \cup RepostIds
                   /\ ListingSends(allListingsMap[i].id) = <<>>

\* C5 witness: a completed non-first run whose batch holds a listing with a
\* seen id and a fingerprint that was not in the fingerprint set, next to a
\* genuinely-new listing that was notified.
C5_Witness ==
    /\ pc = "done"
    /\ Classified
    /\ genuinelyNew # <<>>
    /\ \E i \in 1..Len(allListingsMap) :
          /\ allListingsMap[i].id \in seenIds
          /\ getFingerprint(allListingsMap[i]) \notin seenFps

C7_ClassificationPartitions ==
    Classified
       => LET all == Range(allListingsMap)
              seen == {l \in all : l.id \in seenIds}
          IN  /\ seenIds = redis[REDIS_KEY] \ NewByIdIds
              /\ seenFps \subseteq redis[FINGERPRINT_KEY]
              /\ Range(newByIdListings) = all \ seen
              /\ Range(genuinelyNew) =
                    {l \in all : l.id \notin seenIds
                                    /\ getFingerprint(l) \notin seenFps}
              /\ Range(reposts) =
                    {l \in all : l.id \notin seenIds
                                    /\ getFingerprint(l) \in seenFps}
              /\ Range(genuinelyNew) \cap Range(reposts) = {}
              /\ Range(genuinelyNew) \cup Range(reposts) = Range(newByIdListings)
              /\ Len(genuinelyNew) + Len(reposts) = Len(newByIdListings)
              /\ Cardinality(seen) + Len(newByIdListings) = Len(allListingsMap)

\* C7 witness: the batch of a non-first run has a listing of each class.
C7_Witness ==
    /\ Classified
    /\ genuinelyNew # <<>>
    /\ reposts # <<>>
    /\ Len(newByIdListings) < Len(allListingsMap)

\* C8 as stated: after any non-first run, Done or Failed, the fingerprint
\* set holds the fingerprint of every listing of the run's aggregated batch;
\* here only for runs that classified their batch and in which no store call
\* failed.
C8_SyncedAfterAnyRun ==
    (pc \in {"done", "failed"} /\ Classified
        /\ \A i \in LogIdx :
              log[i].op \in {"exists", "smembers", "sadd", "expire"}
                 => log[i].ok)
       => Range(FingerprintsOf(allListingsMap))
             \subseteq redis[FINGERPRINT_KEY]

\* C8 for the runs that complete: after a non-first run that runs to the
\* end of main (exit 0) the fingerprint set holds the fingerprint of every listing
\* of that run's aggregated batch, whether seen-by-id, repost or genuinely
\* new.
C8_FingerprintsSynced ==
    (pc = "done" /\ Classified)
       => Range(FingerprintsOf(allListingsMap))
             \subseteq redis[FINGERPRINT_KEY]

\* C8 witness: a completed non-first run with a listing of each class, one
\* of them a seen-by-id listing whose fingerprint was not in the set.
C8_Witness ==
    /\ pc = "done"
    /\ Classified
    /\ genuinelyNew # <<>>
    /\ reposts # <<>>
    /\ \E i \in 1..Len(allListingsMap) :
          /\ allListingsMap[i].id \in seenIds
          /\ getFingerprint(allListingsMap[i]) \notin seenFps

C9_WitnessNothingNew ==
    pc = "done" /\ Classified /\ newByIdListings = <<>>

\* Two new-by-id listings of the batch that share a fingerprint which was
\* not in the fingerprint set as read.
NewSiblings(i, j) ==
    /\ i # j
    /\ getFingerprint(newByIdListings[i]) = getFingerprint(newByIdListings[j])
    /\ getFingerprint(newByIdListings[i]) \notin seenFps

\* C10: the repost check tests the fingerprint set persisted before the run
\* only: two new-by-id listings of one batch that share a fingerprint absent
\* from that set are both genuinely new, and a run that completes has made
\* one per-listing send for each of them.
C10_SiblingsBothNew ==
    Classified
       => \A i, j \in 1..Len(newByIdListings) :
             NewSiblings(i, j)
                => /\ newByIdListings[i] \in Range(genuinelyNew)
                   /\ newByIdListings[j] \in Range(genuinelyNew)
                   /\ pc = "done"
                         => /\ Len(ListingSends(newByIdListings[i].id)) = 1
                            /\ Len(ListingSends(newByIdListings[j].id)) = 1

\* C10 witness: a completed run delivered a message for each of two such
\* listings.
C10_Witness ==
    /\ pc = "done"
    /\ Classified
    /\ \E i, j \in 1..Len(newByIdListings) :
          /\ NewSiblings(i, j)
          /\ delivered[newByIdListings[i].id] = 1
          /\ delivered[newByIdListings[j].id] = 1

(***************************************************************************)
(* Aggregation, failed fetches, the empty batch.                           *)
(***************************************************************************)
\* The source results of the run so far, one after the other in fetch order.
RECURSIVE Flatten(_)
Flatten(rs) == IF rs = <<>> THEN <<>> ELSE Head(rs) \o Flatten(Tail(rs))

\* The position of the first record with the given id.
FirstOf(flat, id) ==
    CHOOSE k \in 1..Len(flat) :
        flat[k].id = id /\ \A j \in 1..(k - 1) : flat[j].id # id

\* C11: the aggregate holds exactly one record for each id that appears in
\* any source result: no id twice, no id of a source result missing, no id
\* from elsewhere, and the record held is the first occurrence of the id in
\* fetch order (later records of the id are dropped).
C11_AggregateKeepsFirst ==
    LET flat == Flatten(results)
        all == allListingsMap
    IN  /\ \A i, j \in 1..Len(all) : all[i].id = all[j].id => i = j
        /\ Range(IdsOf(all)) = Range(IdsOf(flat))
        /\ \A i \in 1..Len(all) : all[i] = flat[FirstOf(flat, all[i].id)]

\* C11 witness: every source has been fetched and two sources returned
\* different records for one id.
C11_Witness ==
    /\ Len(results) = 2
    /\ Len(results) = Len(collectUrls)
    /\ \E a \in Range(results[1]), b \in Range(results[2]) :
          a.id = b.id /\ a # b

\* An attempt of the scrapeListings call in progress failed inside its try
\* block (navigation or extraction).
AttemptFailedIn(n) ==
    \E i \in 1..Len(scrapeLog) :
        /\ scrapeLog[i].op \in {"goto", "extract"}
        /\ ~scrapeLog[i].ok
        /\ scrapeLog[i].n = n

\* Both attempts of a fetch have failed and the second session is released.
FetchFailedTwice == AttemptFailedIn(1) /\ AttemptFailedIn(2) /\ pc # "close"

IsStoreCall(e) == e.op \in {"exists", "smembers", "sadd", "expire"}
NoStoreCall == \A i \in LogIdx : ~IsStoreCall(log[i])
NothingClassified ==
    /\ ~isFirstRun /\ seenIds = {} /\ seenFps = {}
    /\ newByIdListings = <<>> /\ genuinelyNew = <<>> /\ reposts = <<>>

\* C12: once the fetch of a source has failed on both attempts the run is on
\* its way to Failed (or the process was killed): main has rejected, no
\* store call was made and the store is as the run found it, the only send
\* is the error notification, nothing was classified although other sources
\* may have returned listings, and the run that ends Failed has attempted
\* exactly one error notification and exits with code 1.
C12_FetchFailureFailsRun ==
    FetchFailedTwice
       => /\ pc \in {"catch", "failed", "crashed"}
          /\ pc # "crashed" => err \in {"scrape", "close"}
          /\ NoStoreCall
          /\ redis = redisAtStart
          /\ NothingClassified
          /\ Len(results) < Len(collectUrls)
          /\ \A i \in LogIdx : log[i].op = "send" => log[i].arg = "error"
          /\ pc = "catch" => AllSends = <<>>
          /\ pc = "failed" => Len(AllSends) = 1 /\ exitCode = 1

\* C12 witness: the second source failed twice after the first had returned
\* listings, and the run has ended Failed.
C12_Witness ==
    /\ FetchFailedTwice
    /\ pc = "failed"
    /\ err = "scrape"
    /\ Len(results) = 1
    /\ results[1] # <<>>

\* Every source has been fetched and the aggregate is empty.
ZeroListings ==
    /\ urlIdx >= 1
    /\ Len(results) = Len(collectUrls)
    /\ allListingsMap = <<>>

DispatchSends == SelectSeq(log, IsDispatchSend)

\* notifyNewListings(genuinelyNew) was called and has returned.
DispatchReturned == genuinelyNew # <<>> /\ next > Len(genuinelyNew)

StoreCallsOk == \A i \in LogIdx : IsStoreCall(log[i]) => log[i].ok

\* Dispatch was entered: one of its sends was attempted.
DispatchStarted == \E i \in LogIdx : IsDispatchSend(log[i])

\* C15 as stated: dispatch never fails the run: whatever sends fail, the
\* summary included, a run that entered dispatch and whose store calls all
\* succeeded does not end Failed; it ends Done with exit code 0.
C15_DispatchNeverFailsRun ==
    (DispatchStarted /\ StoreCallsOk)
       => /\ pc \notin {"catch", "failed"}
          /\ err = "none"
          /\ exitCode \in {-1, 0}

\* C15 for the per-listing sends: a run that entered dispatch and ends
\* Failed although every store call succeeded was failed by the summary
\* send, the one send of the dispatch, and never by a per-listing send.
C15_OnlySummaryFailsRun ==
    (DispatchStarted /\ StoreCallsOk /\ pc \in {"catch", "failed"})
       => /\ err = "telegram"
          /\ DispatchSends = <<SummarySent(genuinelyNew, FALSE)>>

\* C15 witness: a run failed by its summary send, after the ids of its
\* new-by-id listings were written and before the fingerprints were synced.
C15_Witness ==
    /\ pc = "failed"
    /\ DispatchStarted
    /\ StoreCallsOk
    /\ NewByIdIds \subseteq redis[REDIS_KEY]
    /\ \E i \in 1..Len(allListingsMap) :
          getFingerprint(allListingsMap[i]) \notin redis[FINGERPRINT_KEY]

\* main is past its call of notifyNewListings (index.ts 137).
PastDispatch ==
    /\ genuinelyNew # <<>>
    /\ pc \in {"syncFingerprints", "addSeenFingerprints",
               "addSeenFingerprints.expire", "done"}

\* C16: a failed send for one listing does not stop the loop: the
\* per-listing sends of a dispatch follow the list, one attempt per listing
\* and in list order, whether earlier ones failed or not, and after the
\* dispatch every listing has had its attempt; each failed send is logged
\* at once; and no listing is sent again, in the same run or by a later
\* run, whether its send succeeded or failed.
C16_FailedSendIsolated ==
    LET ls == SendsOf("listing") IN
    /\ Len(ls) <= Len(genuinelyNew)
    /\ \A k \in 1..Len(ls) : ls[k].id = genuinelyNew[k].id
    /\ pc = "notifyNewListing" => Len(ls) = next - 1
    /\ PastDispatch => Len(ls) = Len(genuinelyNew)
    /\ \A i \in LogIdx :
          (IsSend(log[i], "listing") /\ ~log[i].ok)
             => i < Len(log) /\ log[i + 1] = Logged(log[i].id)
    /\ \A id \in Ids :
          /\ sendCount[id] <= 1
          /\ (dispatched[id] # 0 /\ dispatched[id] < runNo)
                => ListingSends(id) = <<>>

\* C16 witness: in an earlier run the send for the first listing of a
\* dispatch failed and the last listing of that dispatch was delivered; a
\* later run over a batch with the failed listing has completed without
\* sending it again.
C16_Witness ==
    /\ pc = "done"
    /\ Classified
    /\ "2001" \in BatchIds
    /\ dispatched["2001"] # 0 /\ dispatched["2001"] < runNo
    /\ sendCount["2001"] = 1 /\ delivered["2001"] = 0
    /\ dispatched["3005"] = dispatched["2001"] /\ delivered["3005"] = 1

\* The positions in the log of the per-listing sends, and whether two of
\* them are consecutive per-listing sends.
IsListingSend(i) == IsSend(log[i], "listing")
ConsecutiveListingSends(i, j) ==
    /\ i < j
    /\ IsListingSend(i) /\ IsListingSend(j)
    /\ \A k \in (i + 1)..(j - 1) : ~IsListingSend(k)

\* Pacing delays strictly between two positions of the log.
DelaysBetween(i, j) == {k \in (i + 1)..(j - 1) : log[k] = Paced}

\* C17 as stated: every two consecutive per-listing sends of a dispatch are
\* separated by the pacing delay, whether the earlier of the two succeeded
\* or failed.
C17_AlwaysPaced ==
    \A i, j \in LogIdx :
        ConsecutiveListingSends(i, j) => DelaysBetween(i, j) # {}

\* C17 for what the code does: two consecutive per-listing sends are
\* separated by exactly one pacing delay when the earlier succeeded and by
\* none when it failed.
C17_PacedAfterSuccessOnly ==
    \A i, j \in LogIdx :
        ConsecutiveListingSends(i, j)
           => Cardinality(DelaysBetween(i, j)) = IF log[i].ok THEN 1 ELSE 0

\* C17 witness: a per-listing send failed and the next listing was sent
\* with no delay in between.
C17_Witness ==
    \E i, j \in LogIdx :
        /\ ConsecutiveListingSends(i, j)
        /\ ~log[i].ok
        /\ DelaysBetween(i, j) = {}

\* C18 as stated: in a dispatch no delay precedes the summary, none stands
\* between the summary and the first per-listing message, and none follows
\* the last per-listing message.
C18_DelayOnlyBetweenListings ==
    /\ \A i \in LogIdx :
          IsSend(log[i], "summary")
             => /\ \A k \in 1..(i - 1) : log[k] # Paced
                /\ \A j \in LogIdx :
                      (IsListingSend(j) /\ \A k \in 1..(j - 1) : ~IsListingSend(k))
                         => DelaysBetween(i, j) = {}
    /\ PastDispatch
          => \A i \in LogIdx :
                (IsListingSend(i) /\ \A k \in (i + 1)..Len(log) : ~IsListingSend(k))
                   => \A k \in (i + 1)..Len(log) : log[k] # Paced

\* C18 as amended: no delay precedes the summary; the pacing delays of a
\* run are exactly one right after each send of the dispatch that
\* succeeded, the summary and the last per-listing message included, and
\* none after a send that failed.
C18_DelayAfterEachDelivery ==
    /\ \A i \in LogIdx :
          IsSend(log[i], "summary") => \A k \in 1..(i - 1) : log[k] # Paced
    /\ \A i \in LogIdx :
          log[i] = Paced
             => i > 1 /\ IsDispatchSend(log[i - 1]) /\ log[i - 1].ok
    /\ \A i \in LogIdx :
          (IsDispatchSend(log[i]) /\ log[i].ok)
             => i < Len(log) /\ log[i + 1] = Paced
    /\ \A i \in LogIdx :
          (IsDispatchSend(log[i]) /\ ~log[i].ok /\ i < Len(log))
             => log[i + 1] # Paced

\* C18 witness: a completed dispatch with a summary, in which a delay
\* stands between the summary and the first per-listing message and another
\* after the last per-listing message.
C18_Witness ==
    /\ PastDispatch
    /\ \E i \in LogIdx :
          /\ IsSend(log[i], "summary")
          /\ log[i + 1] = Paced
          /\ IsListingSend(i + 2)
    /\ \E i \in LogIdx :
          /\ IsListingSend(i)
          /\ log[i].id = genuinelyNew[Len(genuinelyNew)].id
          /\ log[i + 1] = Paced

(***************************************************************************)
(* scrapeListings: attempts and the delay between them.                    *)
(***************************************************************************)
ScrapeIdx == 1..Len(scrapeLog)
IsLaunch(e, n) == e.op = "launch" /\ e.n = n
IsFailedStep(e, n) == e.op \in {"goto", "extract"} /\ ~e.ok /\ e.n = n
IsRetryDelay(e) == e.op = "delay"

\* C19: scrapeListings makes at most two attempts for its address, one
\* after the other (never two sessions at once).  A second attempt is made
\* only after the first failed, and exactly one delay of RETRY_DELAY, taken
\* right after that failure, precedes it; a first attempt that succeeds,
\* with listings or with none, is about to return with no delay and no
\* second attempt; and no delay follows a failed second attempt.
C19_TwoSequentialAttempts ==
    /\ attempt <= MaxAttempts
    /\ browser \in {0, 1}
    /\ \A i \in ScrapeIdx :
          /\ scrapeLog[i].arg = url
          /\ scrapeLog[i].op = "launch" => scrapeLog[i].n \in 1..MaxAttempts
    /\ \A i, j \in ScrapeIdx :
          (scrapeLog[i].op = "launch" /\ scrapeLog[j].op = "launch" /\ i < j)
             => scrapeLog[i].n < scrapeLog[j].n
    /\ Cardinality({i \in ScrapeIdx : IsRetryDelay(scrapeLog[i])}) <= 1
    /\ \A i \in ScrapeIdx :
          IsRetryDelay(scrapeLog[i])
             => /\ scrapeLog[i].n = RETRY_DELAY
                /\ i > 1 /\ IsFailedStep(scrapeLog[i - 1], 1)
    /\ \A i \in ScrapeIdx :
          IsLaunch(scrapeLog[i], 2)
             => /\ i > 3
                /\ IsFailedStep(scrapeLog[i - 3], 1)
                /\ IsRetryDelay(scrapeLog[i - 2])
                /\ scrapeLog[i - 1] = Ev("close", url, "", TRUE, 1)
    /\ (outcome = "return" /\ attempt = 1)
          => \A i \in ScrapeIdx :
                /\ ~IsFailedStep(scrapeLog[i], 1)
                /\ ~IsRetryDelay(scrapeLog[i])
                /\ ~IsLaunch(scrapeLog[i], 2)
    /\ \A i \in ScrapeIdx :
          IsFailedStep(scrapeLog[i], 2)
             => \A k \in (i + 1)..Len(scrapeLog) : ~IsRetryDelay(scrapeLog[k])

\* C19 witness: the second attempt of a fetch, made after a failed first
\* attempt and the delay, has succeeded and is about to return.
C19_Witness ==
    /\ pc = "close"
    /\ outcome = "return"
    /\ attempt = 2
    /\ \E i \in ScrapeIdx : IsRetryDelay(scrapeLog[i])

\* C19 further cases: a first attempt returning an empty list, and a failed
\* second attempt with its session released.
C19_WitnessEmptyFirst ==
    pc = "close" /\ outcome = "return" /\ attempt = 1 /\ listings = <<>>

\* main was rejected by an error out of scrapeListings.
FetchErrors == {"launch", "close", "scrape"}

\* C20 as stated: a failure at any step of the first attempt (session
\* launch, navigation, extraction, session release) is followed by the
\* delay and one further attempt, so that an error leaves scrapeListings
\* only after two attempts have failed, and it is the error that names the
\* address and carries the last failure.
C20_AnyFailureRetried ==
    /\ \A i \in ScrapeIdx :
          (~scrapeLog[i].ok /\ scrapeLog[i].n = 1
              /\ pc \notin {"retryDelay", "close", "crashed"})
             => \E j \in (i + 1)..Len(scrapeLog) : IsRetryDelay(scrapeLog[j])
    /\ err \in FetchErrors
          => /\ err = "scrape"
             /\ attempt = MaxAttempts
             /\ \E i \in ScrapeIdx : IsRetryDelay(scrapeLog[i])

\* C20 for what the code does: a failure inside the try block of the first
\* attempt (navigation, extraction) is followed by the delay and, once the
\* session is released, by the second attempt; the error after two failed
\* attempts carries the failure of the second; a failed launch or a failed
\* release, on either attempt, is the last browser call of scrapeListings
\* and rejects main with that failure itself.
C20_TryFailuresRetried ==
    /\ \A i \in ScrapeIdx :
          (IsFailedStep(scrapeLog[i], 1) /\ pc \notin {"retryDelay", "crashed"})
             => /\ i < Len(scrapeLog) /\ IsRetryDelay(scrapeLog[i + 1])
                /\ (i + 2 <= Len(scrapeLog) /\ scrapeLog[i + 2].ok)
                      => attempt = MaxAttempts
    /\ err = "scrape"
          => /\ attempt = MaxAttempts
             /\ AttemptFailedIn(1) /\ AttemptFailedIn(2)
             /\ \E i \in ScrapeIdx :
                   IsFailedStep(scrapeLog[i], 2) /\ scrapeLog[i].op = lastError
    /\ err \in {"launch", "close"}
          => /\ scrapeLog[Len(scrapeLog)].op = err
             /\ ~scrapeLog[Len(scrapeLog)].ok

\* C20 witness: the launch of the first attempt failed and main was
\* rejected at once, with no delay and no second attempt.
C20_Witness ==
    /\ pc = "failed"
    /\ err = "launch"
    /\ attempt = 1
    /\ \A i \in ScrapeIdx : ~IsRetryDelay(scrapeLog[i])

(***************************************************************************)
(* Claims C21-C30.                                                         *)
(***************************************************************************)
\* The steps of a fetch attempt between launch and close.
InAttempt == pc \in {"goto", "extract", "retryDelay", "close"}

\* C21 as stated: a session is open only inside an attempt: none is open
\* when scrapeListings has returned or thrown, whatever made it throw (the
\* killed process aside, where scrapeListings does neither).
C21_NoSessionOutsideAttempt ==
    /\ browser \in {0, 1}
    /\ browser = 1 => InAttempt \/ pc = "crashed"

\* C21: at most one session is open at any time; one is open throughout
\* an attempt, the retry delay included, and the close in the finally
\* block ends it on every way out of the try block, so none is open when
\* the next attempt or the next source starts, when main goes on after the
\* fetch, or when scrapeListings throws after the second failure.  Only
\* when browser.close() itself throws can the session be left open.
C21_SessionReleased ==
    /\ browser \in {0, 1}
    /\ InAttempt => browser = 1
    /\ browser = 1 => InAttempt \/ pc = "crashed" \/ err = "close"
    /\ pc = "launch" => browser = 0
    /\ err \in {"scrape", "launch"} => browser = 0

\* C21 witness: the first attempt failed, the retry delay was taken with
\* the session open, the close ended the session and the second attempt
\* is about to launch.
C21_Witness ==
    /\ pc = "launch"
    /\ attempt = 2
    /\ browser = 0
    /\ \E i \in 1..Len(scrapeLog) : scrapeLog[i].op = "delay"
    /\ scrapeLog[Len(scrapeLog)] = Ev("close", url, "", TRUE, 1)

\* The run is past validateEnv().
Validated == pc \notin {"idle", "validateEnv"}

\* The run fails in validation: main has rejected with the validation
\* error (or the process was killed), nothing was fetched, the store was
\* not called, no zero-listings warning was sent, and the run that ends
\* does so with exit code 1.
FailsInValidation ==
    /\ pc \in {"catch", "failed", "crashed"}
    /\ pc # "crashed" => err = "env"
    /\ results = <<>> /\ scrapeLog = <<>>
    /\ NoStoreCall
    /\ redis = redisAtStart
    /\ SendsOf("zero") = <<>>
    /\ pc = "failed" => exitCode = 1

\* C22 as stated: a run whose configuration lacks a required credential or
\* yields no source address fails in validation.
C22_NoAddressFailsRun ==
    (Validated /\ (MissingEnv(env) # {} \/ collectUrls = <<>>))
       => FailsInValidation

\* C22, for what validateEnv() checks: a run whose configuration lacks a
\* required variable, or has none of the address variables set, fails in
\* validation.
C22_MissingVariableFailsRun ==
    (Validated /\ ~ValidEnv(env)) => FailsInValidation

\* C22 witness: the address variable holds blanks and separators only;
\* validation let it pass, nothing was fetched, the zero-listings warning
\* went out and the run ended with exit code 0.
C22_Witness ==
    /\ collectUrls = <<>>
    /\ MissingEnv(env) = {}
    /\ pc = "done"
    /\ exitCode = 0
    /\ SendsOf("zero") # <<>>

\* What main() can reject with: validation, fetch, store, transport.
Errors == {"env", "launch", "scrape", "close", "redis", "telegram"}

\* C23: an error that escapes main() reaches the handler, which attempts
\* exactly one error notification, as the last call of the run, and exits
\* with code 1 whether that send succeeded or failed; an error
\* notification is attempted only there, and exit code 1 is set only
\* there.
C23_ErrorNotifiedOnceThenExit1 ==
    /\ err \in Errors \cup {"none"}
    /\ err # "none" => pc \in {"catch", "failed", "crashed"}
    /\ pc \in {"catch", "failed"} => err # "none"
    /\ pc = "catch" => SendsOf("error") = <<>> /\ exitCode = -1
    /\ pc = "failed"
          => /\ err # "none"
             /\ exitCode = 1
             /\ Len(SendsOf("error")) = 1
             /\ IsSend(log[Len(log)], "error")
    /\ SendsOf("error") # <<>> => pc = "failed"
    /\ exitCode = 1 => pc = "failed"

\* C23 witness: a run rejected by the store has ended Failed with exit
\* code 1 although the error notification itself failed.
C23_Witness ==
    /\ pc = "failed"
    /\ err = "redis"
    /\ exitCode = 1
    /\ log[Len(log)] = Sent("error", "", FALSE)

\* The ways main() returns (index.ts 88-92, 96-104, 112-113, 138-140,
\* 135-137).
OutcomeZero == allListingsMap = <<>> /\ SendsOf("zero") # <<>>
OutcomeSeeded == allListingsMap # <<>> /\ isFirstRun
OutcomeNothingNew ==
    allListingsMap # <<>> /\ Classified /\ newByIdListings = <<>>
OutcomeAllReposts ==
    Classified /\ newByIdListings # <<>> /\ genuinelyNew = <<>>
OutcomeNewListings == Classified /\ genuinelyNew # <<>>
Outcomes ==
    <<OutcomeZero, OutcomeSeeded, OutcomeNothingNew, OutcomeAllReposts,
      OutcomeNewListings>>

\* A call that main() does not survive has failed: validation, a browser
\* call of the fetch, a store call, or a send outside the per-listing loop.
FatalError ==
    \/ err = "env" /\ ~ValidEnv(env)
    \/ /\ err \in FetchErrors
       /\ \E i \in 1..Len(scrapeLog) : ~scrapeLog[i].ok
    \/ err = "redis" /\ \E i \in LogIdx : IsStoreCall(log[i]) /\ ~log[i].ok
    \/ /\ err = "telegram"
       /\ \E i \in LogIdx :
             /\ log[i].op = "send" /\ ~log[i].ok
             /\ log[i].arg \in {"zero", "init", "summary"}

StoreReadFailed ==
    \E i \in LogIdx :
       log[i].op \in {"exists", "smembers"} /\ ~log[i].ok

\* C25 as stated: a run that could not read the store has scraped no
\* source.
C25_NoScrapeWhenStoreDown == StoreReadFailed => results = <<>>

\* C25, for what the code does: the store is first called after every
\* source has been scraped and the batch is not empty; a failed read ends
\* the run on the spot: main rejects with the store error, nothing is
\* classified or written, the store is as the run found it, nothing is
\* sent but the one error notification, and the exit code is 1.
C25_StoreFailureIsFatal ==
    /\ ~NoStoreCall => Len(results) = Len(collectUrls) /\ allListingsMap # <<>>
    /\ StoreReadFailed
          => /\ pc \in {"catch", "failed", "crashed"}
             /\ pc # "crashed" => err = "redis"
             /\ \A i, j \in LogIdx :
                   (IsStoreCall(log[i]) /\ ~log[i].ok /\ i < j)
                      => IsSend(log[j], "error")
             /\ NothingClassified \/ (seenIds # {} /\ seenFps = {})
             /\ newByIdListings = <<>> /\ genuinelyNew = <<>>
             /\ redis = redisAtStart
             /\ \A i \in LogIdx : log[i].op = "send" => log[i].arg = "error"
             /\ \A i \in LogIdx : log[i].op # "sadd"
             /\ pc = "failed" => exitCode = 1

\* C25 witness: both sources were scraped and returned listings, then the
\* first store call (does the identity set exist) failed and the run ended
\* Failed.
C25_Witness ==
    /\ pc = "failed"
    /\ err = "redis"
    /\ Len(results) = 2
    /\ results[1] # <<>> /\ results[2] # <<>>
    /\ log[1] = Ev("exists", REDIS_KEY, "", FALSE, 0)

\* The keys of the store.
Keys == {REDIS_KEY, FINGERPRINT_KEY}

\* What a key had left to live when the current run started, the previous
\* run having ended RunInterval seconds before.
ExpiryAtStart(k) ==
    IF prev.ttl[k] < 0 THEN prev.ttl[k]
    ELSE IF prev.ttl[k] <= RunInterval THEN NoKey
    ELSE prev.ttl[k] - RunInterval

\* C26 as stated: with every run completing and the runs RunInterval
\* apart, a set that was there when a run ended is there when the next
\* starts: neither set ever expires.
C26_NeverExpires ==
    \A k \in Keys : prev.store[k] # {} => redisAtStart[k] = prev.store[k]

\* C26, for what the code does: a set survives to the next run when the
\* run before refreshed its expiry.  A completed run refreshes the expiry
\* of the fingerprint set whenever its batch is not empty, but that of
\* the identity set only when it seeded or found a listing with a new id;
\* otherwise the identity set has as much less to live as time has passed.
C26_RefreshedSetsSurvive ==
    /\ \A k \in Keys :
          prev.ttl[k] = TTL_SECONDS => redisAtStart[k] = prev.store[k]
    /\ (pc = "done" /\ allListingsMap # <<>>)
          => /\ expiry[FINGERPRINT_KEY] = TTL_SECONDS
             /\ expiry[REDIS_KEY] =
                   IF isFirstRun \/ newByIdListings # <<>>
                   THEN TTL_SECONDS ELSE ExpiryAtStart(REDIS_KEY)
    /\ (pc = "done" /\ allListingsMap = <<>>)
          => \A k \in Keys : expiry[k] = ExpiryAtStart(k)

\* C26 witness: a run completed without finding a listing with a new id,
\* the identity set expired before the next run, RunInterval later, and
\* that run seeded the store again and sent the initialization message.
C26_Witness ==
    /\ prev.pc = "done"
    /\ prev.store[REDIS_KEY] # {}
    /\ redisAtStart[REDIS_KEY] = {}
    /\ redisAtStart[FINGERPRINT_KEY] # {}
    /\ pc = "done"
    /\ isFirstRun
    /\ SendsOf("init") # <<>>

\* The key a store function writes, and the other one.
KeyOf(fn) == IF fn = "addSeenIds" THEN REDIS_KEY ELSE FINGERPRINT_KEY
OtherKey(k) == IF k = REDIS_KEY THEN FINGERPRINT_KEY ELSE REDIS_KEY

\* C27: a call of addSeenIds or addSeenFingerprints that has returned
\* made no store call and left both keys, members and expiry, as it found
\* them when its list was empty; otherwise it made exactly two calls, an
\* sadd and then an expire on its own key, the key holds what it held plus
\* all values of the list, its expiry is the full TTL, and the other key
\* is untouched.  Every sadd that succeeded is followed at once by the
\* expire call on the same key (which, like any store call, can fail and
\* then throws out of the function).
C27_WriteThenRefresh ==
    LET fn == prev.pc
        k == KeyOf(fn)
        o == OtherKey(k)
    IN  /\ (fn \in {"addSeenIds", "addSeenFingerprints"} /\ pc = "idle")
              => IF arg = <<>>
                 THEN /\ log = <<>>
                      /\ redis = prev.store
                      /\ expiry = prev.ttl
                 ELSE /\ log = <<Ev("sadd", k, "", TRUE, Len(arg)),
                                 Ev("expire", k, "", TRUE, 0)>>
                      /\ redis[k] = prev.store[k] \cup Range(arg)
                      /\ expiry[k] = TTL_SECONDS
                      /\ redis[o] = prev.store[o]
                      /\ expiry[o] = prev.ttl[o]
        /\ \A i \in LogIdx :
              (log[i].op = "sadd" /\ log[i].ok)
                 => IF i < Len(log)
                    THEN log[i + 1].op = "expire" /\ log[i + 1].arg = log[i].arg
                    ELSE pc \in {"addSeenIds.expire",
                                 "addSeenFingerprints.expire"}
                         /\ KeyOf(fn) = log[i].arg

\* C27 witness: addSeenIds was called with a non-empty list on a key that
\* had used up part of its time to live, and has returned with the key's
\* expiry back at the full TTL.
C27_Witness ==
    /\ prev.pc = "addSeenIds"
    /\ pc = "idle"
    /\ arg # <<>>
    /\ prev.ttl[REDIS_KEY] > 0
    /\ prev.ttl[REDIS_KEY] < TTL_SECONDS
    /\ ~(Range(arg) \subseteq prev.store[REDIS_KEY])
    /\ expiry[REDIS_KEY] = TTL_SECONDS

\* The empty list: addSeenFingerprints returned without a store call, on
\* a store where the key does not exist.
C27_WitnessEmpty ==
    /\ prev.pc = "addSeenFingerprints"
    /\ pc = "idle"
    /\ arg = <<>>
    /\ log = <<>>
    /\ expiry[FINGERPRINT_KEY] = NoKey

\* hasSeenIds() has answered in the current run.
Queried == \E i \in LogIdx : log[i] = Ev("exists", REDIS_KEY, "", TRUE, 0)

\* C28: the run is a first run exactly when the identity-set key was
\* absent at the query, whatever the fingerprint set holds; the store is
\* not called before the query; a first run reads no members, seeds and
\* sends the initialization message, and no other run does; and a run
\* that finds the identity set as the previous run left it (no expiry in
\* between) does not seed and sends no initialization message.
C28_SeedsIffKeyAbsent ==
    /\ ~Queried => ~isFirstRun /\ NoStoreCall
    /\ Queried => (isFirstRun <=> redisAtStart[REDIS_KEY] = {})
    /\ isFirstRun
          => /\ \A i \in LogIdx : log[i].op # "smembers"
             /\ ~Classified
             /\ pc = "done"
                   => /\ Len(SendsOf("init")) = 1
                      /\ BatchIds \subseteq redis[REDIS_KEY]
    /\ SendsOf("init") # <<>> => isFirstRun
    /\ (prev.store[REDIS_KEY] # {}
           /\ redisAtStart[REDIS_KEY] = prev.store[REDIS_KEY])
          => ~isFirstRun /\ SendsOf("init") = <<>>

\* C28 witness: the query found the identity set absent while the
\* fingerprint set was there, and the run is seeding: the ids are
\* written, the fingerprints are next.
C28_Witness ==
    /\ Queried
    /\ isFirstRun
    /\ redisAtStart[FINGERPRINT_KEY] # {}
    /\ pc = "seedFingerprints"
    /\ BatchIds \subseteq redis[REDIS_KEY]

\* The other side: the identity set is as the previous run wrote it and
\* the run compares instead of seeding.
C28_WitnessNotFirst ==
    /\ prev.pc = "done"
    /\ prev.store[REDIS_KEY] # {}
    /\ Classified
    /\ ~isFirstRun
    /\ pc = "done"

\* The previous run completed, and the current run, started right after
\* it, has fetched every source and aggregated the same batch.
Repeated ==
    /\ prev.pc = "done"
    /\ urlIdx >= 1
    /\ Len(results) = Len(collectUrls)
    /\ allListingsMap = prev.batch

\* C29 as stated: the run over the same batch finds nothing new by id,
\* sends no message of any kind and leaves both sets as they were.
C29_RepeatIsSilent ==
    Repeated
       => /\ newByIdListings = <<>>
          /\ AllSends = <<>>
          /\ redis = redisAtStart

\* C29: the run over the same batch is not a first run, finds nothing new
\* by id, dispatches nothing and leaves the members of both sets as they
\* were.  With a batch that is not empty it sends no message at all,
\* unless the store fails it, and then only the error notification; with
\* the empty batch it sends the zero-listings warning again.
C29_RepeatFindsNothingNew ==
    Repeated
       => /\ ~isFirstRun
          /\ newByIdListings = <<>>
          /\ genuinelyNew = <<>> /\ reposts = <<>>
          /\ redis = redisAtStart
          /\ \A i \in LogIdx :
                log[i].op = "send"
                   => \/ log[i].arg = "zero" /\ allListingsMap = <<>>
                      \/ log[i].arg = "error" /\ err = "redis"
          /\ (allListingsMap # <<>> /\ err = "none") => AllSends = <<>>
          /\ (allListingsMap = <<>> /\ pc = "done")
                => AllSends = <<Sent("zero", "", TRUE)>>

\* C29 witness: the previous run found new listings and announced them;
\* the run right after it, over the same batch, has completed without a
\* send, the store as it found it.
C29_Witness ==
    /\ Repeated
    /\ prev.genuinelyNew # <<>>
    /\ pc = "done"
    /\ Classified
    /\ AllSends = <<>>
    /\ redis = redisAtStart

\* The previous run was a first run.
C29_WitnessAfterSeeding ==
    /\ Repeated
    /\ ~prev.classified
    /\ prev.batch # <<>>
    /\ pc = "done"
    /\ AllSends = <<>>

\* The previous run and the current one have both classified, the same
\* batch against the same members read from the store.
SameInputs ==
    /\ prev.classified
    /\ Classified
    /\ allListingsMap = prev.batch
    /\ seenIds = prev.seenIds
    /\ seenFps = prev.seenFps

FetchingOver ==
    /\ urlIdx >= 1
    /\ Len(results) = Len(collectUrls)
    /\ scrapeLog = <<>>
    /\ browser = 0
    /\ pc \notin {"idle", "validateEnv", "launch", "goto", "extract",
                  "retryDelay", "close"}

\* The calls a first run makes, in order (index.ts 98, 100, 102).
FirstRunCalls ==
    <<Ev("exists", REDIS_KEY, "", TRUE, 0),
      Ev("sadd", REDIS_KEY, "", TRUE, Len(allListingsMap)),
      Ev("expire", REDIS_KEY, "", TRUE, 0),
      Ev("sadd", FINGERPRINT_KEY, "", TRUE, Len(allListingsMap)),
      Ev("expire", FINGERPRINT_KEY, "", TRUE, 0),
      Sent("init", "", TRUE)>>

\* The log is a prefix of calls, its last call possibly having failed, and
\* after a failure nothing but the error notification follows.
FollowsOrder(calls) ==
    \E n \in 0..Len(calls) :
       \/ log = SubSeq(calls, 1, n)
       \/ /\ n >= 1
          /\ Len(log) \in {n, n + 1}
          /\ SubSeq(log, 1, n - 1) = SubSeq(calls, 1, n - 1)
          /\ log[n] = [calls[n] EXCEPT !.ok = FALSE, !.n = 0]
          /\ Len(log) = n + 1 => IsSend(log[n + 1], "error")

C33_WitnessFirstRun == isFirstRun /\ pc = "done" /\ log = FirstRunCalls

\* The run found the store half-written: a first run before it had seeded
\* the identity set and was interrupted before it seeded the fingerprint
\* set.
HalfSeeded ==
    /\ runNo >= 1
    /\ redisAtStart[REDIS_KEY] # {}
    /\ redisAtStart[FINGERPRINT_KEY] = {}

\* C35: a run that finds the store half-written is not a first run: it
\* sends no initialization message and seeds nothing, attempts no listing
\* message for an id of the seeded batch, and when it completes the
\* fingerprint set holds the fingerprint of every listing of its batch.
\* Having no fingerprint to compare with, it takes every listing with a
\* new id for genuinely new.
C35_HalfSeededIsSafe ==
    HalfSeeded
       => /\ Queried => ~isFirstRun
          /\ SendsOf("init") = <<>>
          /\ \A i \in LogIdx :
                IsSend(log[i], "listing")
                   => log[i].id \notin redisAtStart[REDIS_KEY]
          /\ Classified => genuinelyNew = newByIdListings /\ reposts = <<>>
          /\ (pc = "done" /\ allListingsMap # <<>>)
                => /\ Range(FingerprintsOf(allListingsMap))
                         \subseteq redis[FINGERPRINT_KEY]
                   /\ redisAtStart[REDIS_KEY] \cup BatchIds = redis[REDIS_KEY]

\* C35 witness: the run after the interrupted first run has completed
\* over a batch that holds a seeded listing and a listing with a new id;
\* the new one was announced, the fingerprints of both are in the store.
C35_Witness ==
    /\ HalfSeeded
    /\ pc = "done"
    /\ BatchIds \cap redisAtStart[REDIS_KEY] # {}
    /\ genuinelyNew # <<>>
    /\ redis[FINGERPRINT_KEY] # {}

\* The store call at position i of the log failed.
StoreCallFailedAt(i) == IsStoreCall(log[i]) /\ ~log[i].ok

\* The store calls that precede every dispatch: the query, the two reads
\* and the calls on the identity set.
BeforeDispatch(e) ==
    e.op \in {"exists", "smembers"} \/ e.arg = REDIS_KEY

\* C36: a failed store call ends the run: main has rejected with the
\* store error (or the process was killed), the run that ends does so
\* Failed with exit code 1, and after the failed call nothing is called
\* but the error notification, so no set is written any more.  When the
\* failed call is the query, a read or a call on the identity set, the run
\* has sent no summary, no listing message and no initialization message;
\* and no run ever attempts a listing message for an id the identity set
\* held when the run started.
C36_StoreFailureStopsRun ==
    /\ \A i \in LogIdx :
          StoreCallFailedAt(i)
             => /\ pc \in {"catch", "failed", "crashed"}
                /\ pc # "crashed" => err = "redis"
                /\ pc = "failed" => exitCode = 1
                /\ \A j \in (i + 1)..Len(log) : IsSend(log[j], "error")
                /\ BeforeDispatch(log[i])
                      => \A j \in LogIdx :
                            log[j].op = "send" => log[j].arg = "error"
    /\ \A j \in LogIdx :
          IsSend(log[j], "listing")
             => log[j].id \notin redisAtStart[REDIS_KEY]

\* C36 witness: the batch was classified, several listings genuinely new,
\* the write of their ids failed, and the run has ended Failed with the
\* error notification its only message.
C36_Witness ==
    /\ pc = "failed"
    /\ genuinelyNew # <<>>
    /\ \E i \in LogIdx : log[i] = Ev("sadd", REDIS_KEY, "", FALSE, 0)
    /\ Len(AllSends) = 1
    /\ redis = redisAtStart

\* The launches of the scrapeListings call in progress.
Launches == SelectSeq(scrapeLog, LAMBDA e : e.op = "launch")

\* The bounds of a run: each source is fetched once, in at most two
\* attempts, and each message is attempted at most once.
RunBounded ==
    /\ attempt \in 0..MaxAttempts
    /\ Len(Launches) <= MaxAttempts
    /\ Len(results) <= Len(collectUrls)
    /\ \A kind \in {"zero", "init", "summary", "error"} :
          Len(SendsOf(kind)) <= 1
    /\ \A id \in Ids : Len(ListingSends(id)) <= 1
    /\ pc = "done" => exitCode = 0
    /\ pc = "failed" => exitCode = 1
    /\ pc # "crashed"

\* C37: a run that has started ends Done or Failed; on its way each
\* source is fetched in at most two attempts and each message is
\* attempted at most once; Done carries exit code 0 and Failed exit
\* code 1.
C37_RunTerminates ==
    /\ []RunBounded
    /\ [](pc \notin Terminal => <>(pc \in {"done", "failed"}))

\* C37 witness: a source failed in both attempts and the run has ended
\* Failed with exit code 1.
C37_Witness ==
    /\ pc = "failed"
    /\ exitCode = 1
    /\ attempt = MaxAttempts
    /\ Len(Launches) = MaxAttempts
    /\ err = "scrape"

\* The words of a text: its maximal runs of non-whitespace characters, in
\* lower case.  Two titles that differ only in letter case, in the length or
\* kind of their whitespace runs and in leading or trailing whitespace have
\* the same words.
RECURSIVE Words(_)
Words(s) ==
    LET t == TrimStart(s)
        stops == {i \in 1..Len(t) : t[i] \in Whitespace}
        n == IF stops = {} THEN Len(t) + 1
             ELSE CHOOSE i \in stops : \A j \in stops : i <= j
    IN  IF t = <<>> THEN <<>>
        ELSE <<ToLowerCase(SubSeq(t, 1, n - 1))>>
                 \o Words(SubSeq(t, n, Len(t)))

\* The characters of a text that are not whitespace.
NonBlank(s) == SelectSeq(s, LAMBDA c : c \notin Whitespace)

SameTitle(a, b) == Words(a.title) = Words(b.title)
SamePrice(a, b) == NonBlank(a.price) = NonBlank(b.price)

Fingerprinted == input # <<>> /\ Len(output) = 2

HasBar(s) == \E i \in 1..Len(s) : s[i] = "|"

\* C38 as stated: listings that agree on title and price up to letter case
\* and whitespace receive the same fingerprint whatever their id, url,
\* location and image,
\* and two listings receive the same fingerprint only if they agree in
\* that way.
C38_FingerprintIsNormalizedPair ==
    Fingerprinted =>
        (output[1] = output[2]
            <=> (SameTitle(input[1], input[2])
                    /\ SamePrice(input[1], input[2])))

\* C38, what holds: getFingerprint is invariant under letter case, whitespace
\* runs and leading or trailing whitespace of the title and under any
\* whitespace of the price, and id, url, location and image do not enter it;
\* equal fingerprints imply equal normalized titles and equal stripped
\* prices when neither price, or neither title, contains the "|" that
\* getFingerprint joins them with.
C38_FingerprintNormalizes ==
    Fingerprinted =>
        /\ (SameTitle(input[1], input[2]) /\ SamePrice(input[1], input[2]))
                => output[1] = output[2]
        /\ (/\ output[1] = output[2]
            /\ \/ ~HasBar(input[1].price) /\ ~HasBar(input[2].price)
               \/ ~HasBar(input[1].title) /\ ~HasBar(input[2].title))
                => (SameTitle(input[1], input[2])
                        /\ SamePrice(input[1], input[2]))

\* Two listings that differ in case, whitespace, id, url, location and
\* image, with one fingerprint.
C38_Witness ==
    /\ Fingerprinted
    /\ input[1].title = <<"A", "\t", " ", "B", " ">>
    /\ input[2].title = <<"a", " ", "b">>
    /\ input[1].price = <<"1", " ", "2">>
    /\ input[2].price = <<"1", "2", "\t">>
    /\ input[1].id # input[2].id
    /\ input[1].url # input[2].url
    /\ input[1].location # input[2].location
    /\ output[1] = output[2]
    /\ output[1] = <<"a", " ", "b", "|", "1", "2">>

\* The site a host belongs to, of the four sites the fetch layer accepts.
Sites == {"njuskalo.hr", "index.hr", "oglasnik.hr", "nekretnine.hr"}

SiteOf(address) ==
    IF \E d \in Sites : Includes(Hostname(address), d)
    THEN CHOOSE d \in Sites : Includes(Hostname(address), d)
    ELSE "none"

\* The name each site goes by in a message; the notifier has none for
\* nekretnine.hr.
NameOf(site) ==
    CASE site = "njuskalo.hr" -> "Njuskalo"
      [] site = "index.hr" -> "Index Oglasi"
      [] site = "oglasnik.hr" -> "Oglasnik"
      [] OTHER -> "none"

Labelled == input # <<>> /\ output # <<>> /\ output.siteName # ""

\* C32 as stated: the label of a per-listing message names the site that
\* hosts the url of the listing, for each of the four sites the fetch layer
\* accepts.
C32_LabelNamesHost ==
    (Labelled /\ SiteOf(output.url) \in Sites)
        => output.siteName = NameOf(SiteOf(output.url))

\* C32, what holds: the label is "Index Oglasi" exactly when the url holds
\* "index.hr" anywhere, else "Oglasnik" exactly when it holds "oglasnik.hr"
\* anywhere, else the first site's name; so a listing hosted by index.hr is
\* always labelled with its site, and one hosted by oglasnik.hr or
\* njuskalo.hr is when its path does not quote a site the notifier tests
\* for earlier.
C32_LabelFollowsUrlText ==
    Labelled =>
        /\ SiteOf(output.url) = "index.hr"
                => output.siteName = "Index Oglasi"
        /\ (SiteOf(output.url) = "oglasnik.hr"
                /\ ~Includes(output.url, "index.hr"))
                => output.siteName = "Oglasnik"
        /\ (/\ SiteOf(output.url) = "njuskalo.hr"
            /\ ~Includes(output.url, "index.hr")
            /\ ~Includes(output.url, "oglasnik.hr"))
                => output.siteName = "Njuskalo"
        /\ output.siteName = "Oglasnik" => Includes(output.url, "oglasnik.hr")
        /\ output.siteName = "Index Oglasi"
                => Includes(output.url, "index.hr")

\* A listing of an oglasnik.hr search page, its href relative, labelled
\* with its site.
C32_Witness ==
    /\ Labelled
    /\ input.page = <<Scheme, "www.", "oglasnik.hr", "/", "search">>
    /\ input.href = <<"/", "oglas-1">>
    /\ output.url = <<Scheme, "oglasnik.hr", "/", "oglas-1">>
    /\ output.siteName = "Oglasnik"

\* The two invocations of main() of an overlap.
BothRuns == {ThisRun, other}
BothDone == \A r \in BothRuns : r.pc = "done"

\* The store the two invocations started from.
StoreAtFirst == prev.store

\* What one invocation of main() over the batch, alone and to its end,
\* makes of a store (index.ts 88-145).
SerialRun(store, batch) ==
    IF batch = <<>> THEN store
    ELSE LET newById == NewById(batch, store[REDIS_KEY])
             ids == IF store[REDIS_KEY] = {} THEN SeededIds(batch)
                    ELSE TrackedIds(newById,
                             GenuinelyNew(newById, store[FINGERPRINT_KEY]))
         IN  [k \in {REDIS_KEY, FINGERPRINT_KEY} |->
                 IF k = REDIS_KEY THEN store[k] \cup Range(ids)
                 ELSE store[k] \cup Range(SyncedFingerprints(batch))]

\* No step takes a member out of either set.
Additive == \A k \in DOMAIN redis : redis[k] \subseteq redis'[k]

\* C31: every write to the two sets is additive: no step of a run removes
\* a member of the identity set or of the fingerprint set, and when two runs
\* that overlap have both completed, the two sets hold what the two runs
\* would have left one after the other.
C31_WritesAreAdditive ==
    /\ [][Additive]_vars
    /\ [](BothDone =>
            \E r \in BothRuns : \E q \in BothRuns \ {r} :
                redis = SerialRun(SerialRun(StoreAtFirst, r.allListingsMap),
                                  q.allListingsMap))

\* Two runs over different batches both found the identity set absent and
\* both seeded; both completed.
C31_Witness ==
    /\ BothDone
    /\ isFirstRun /\ other.isFirstRun
    /\ allListingsMap # other.allListingsMap
    /\ allListingsMap # <<>> /\ other.allListingsMap # <<>>
    /\ redis # SerialRun(StoreAtFirst, allListingsMap)
    /\ redis # SerialRun(StoreAtFirst, other.allListingsMap)

\* The listing a run's batch holds under an id.
ListingOf(r, i) ==
    CHOOSE l \in Range(r.allListingsMap) : l.id = i

\* The id is in the batches of both runs, and neither it nor the content of
\* its listing was known when they started.
NewToBoth(i) ==
    /\ \A r \in BothRuns : i \in Range(IdsOf(r.allListingsMap))
    /\ i \notin StoreAtFirst[REDIS_KEY]
    /\ \A r \in BothRuns :
           getFingerprint(ListingOf(r, i)) \notin StoreAtFirst[FINGERPRINT_KEY]

\* The run read the identity set (index.ts 107) while the id was not in
\* it: before any run wrote the id.
ReadIdsBeforeWrite(r, i) ==
    /\ ~r.isFirstRun
    /\ Ev("smembers", REDIS_KEY, "", TRUE, 0) \in Range(r.log)
    /\ i \notin r.seenIds

\* The run read the fingerprint set (index.ts 108) while the content of
\* the listing was not in it: before the other run synced its fingerprints.
ReadFpsBeforeWrite(r, i) ==
    /\ Ev("smembers", FINGERPRINT_KEY, "", TRUE, 0) \in Range(r.log)
    /\ getFingerprint(ListingOf(r, i)) \notin r.seenFps

\* C34 as stated: when both runs read the identity set before either wrote
\* the id, both send a per-listing notification for it.
C34_BothNotify ==
    \A i \in Ids :
        (/\ BothDone
         /\ NewToBoth(i)
         /\ \A r \in BothRuns : ReadIdsBeforeWrite(r, i))
            => sendCount[i] = 2

\* C34, amended: when both runs read the identity set before either wrote
\* the id, the id is notified twice exactly when both also read the
\* fingerprint set before the other wrote the fingerprint of the listing; a
\* run that reads the fingerprint set later takes the listing for a repost,
\* and the id is notified once.  An id is never notified twice unless both
\* runs read both sets before the other's writes, which runs that do not
\* overlap cannot do.
C34_BothNotifyIfBothReadsEarly ==
    \A i \in Ids :
        /\ (/\ BothDone
            /\ NewToBoth(i)
            /\ \A r \in BothRuns : ReadIdsBeforeWrite(r, i))
               => /\ sendCount[i] \in {1, 2}
                  /\ sendCount[i] = 2
                        <=> \A r \in BothRuns : ReadFpsBeforeWrite(r, i)
        /\ sendCount[i] <= 2
        /\ sendCount[i] = 2
              => /\ NewToBoth(i)
                 /\ \A r \in BothRuns :
                        ReadIdsBeforeWrite(r, i) /\ ReadFpsBeforeWrite(r, i)

\* Both runs scraped the page with the new listing 2001, both read the two
\* sets before the other wrote, and 2001 was sent twice.
C34_Witness ==
    /\ BothDone
    /\ NewToBoth("2001")
    /\ \A r \in BothRuns :
           ReadIdsBeforeWrite(r, "2001") /\ ReadFpsBeforeWrite(r, "2001")
    /\ sendCount["2001"] = 2
    /\ delivered["2001"] = 2

\* One run read the identity set before the other wrote the id and the
\* fingerprint set after the other had synced: 2001 was sent once.
C34_WitnessLateRead ==
    /\ BothDone
    /\ NewToBoth("2001")
    /\ \A r \in BothRuns : ReadIdsBeforeWrite(r, "2001")
    /\ \E r \in BothRuns : ~ReadFpsBeforeWrite(r, "2001")
    /\ sendCount["2001"] = 1

====
